---- MODULE Spec2Model ----
(***************************************************************************)
(* The VAPI -> Langflow multi-node converter, class VAPIToLangflowRealNode  *)
(* of src/vapi_to_langflow_realnode_converter.py.                           *)
(*                                                                         *)
(* The state is one converter instance (its component library and the      *)
(* _routing_components attribute that _insert_routing_logic creates on it), *)
(* the identity hook (uuid.uuid4, pinned to a counter) and the input and    *)
(* the result of the last convert() call.  convert() is one synchronous     *)
(* call: the action Convert runs all of it, phase by phase, in the order of *)
(* the source.                                                              *)
(*                                                                         *)
(* The templates of the library and the clones made of them are objects of  *)
(* a heap, so that what a write through a clone changes is part of the      *)
(* state.  The class VAPIToLangflowUnified of src/agent_management/         *)
(* vapi_converter shares the library and the clone with the multi-node      *)
(* converter; an instance is of one of the two classes.                     *)
(***************************************************************************)
EXTENDS Integers, Sequences, FiniteSets, TLC

VARIABLES
    converter,            \* the class of the instance: "RealNode" or "Unified"
    template_flow,        \* self.template_flow: the type of each node of the document
    component_library,    \* self.component_library: [type, addr] in insertion order
    heap,                 \* the objects: [node, data], a node object refers to its data
    held,                 \* the node objects _clone_component has returned, in order
    routing_components,   \* self._routing_components: [set, items]; set = hasattr(...)
    uuid_seq,             \* how many identities uuid.uuid4 has handed out
    uuid_hex,             \* uuid.uuid4().hex[:5] of the first calls; <<>>: all distinct
    calls,                \* convert() calls made on this instance with a new input
    repeats,              \* convert() calls made again on the last input
    max_calls,            \* how many convert() calls the run makes on one instance
    family,               \* which source graphs the run feeds to convert()
    vapi_nodes,           \* workflow['nodes'] of the last call
    vapi_edges,           \* workflow['edges'] of the last call
    status,               \* "idle", "ok" (convert returned), "error" (convert raised)
    nodes,                \* new_flow['data']['nodes'] as returned
    edges,                \* new_flow['data']['edges'] as returned
    id_map,               \* local id_map at the end of the call
    chat_input_id,        \* local chat_input_id
    chat_output_id,       \* local chat_output_id
    start_node_name,      \* local start_node_name at the end of the call
    first_level_set,      \* local first_level_set
    system_prompt         \* the items build_system_prompt has joined, in order

vars == <<converter, uuid_hex, system_prompt, template_flow, component_library, heap, held, routing_components, uuid_seq, calls, repeats, max_calls, family,
          vapi_nodes, vapi_edges, status, nodes, edges, id_map, chat_input_id,
          chat_output_id, start_node_name, first_level_set>>

-----------------------------------------------------------------------------
(* Bounds of the model. *)

MaxNodes == 3       \* source nodes of a graph of the general family
MaxEdges == 3       \* source edges of a graph of the general family
MaxWidth == 4       \* out-degree of the hub of a graph of the tree family
MaxCalls == 2       \* convert() calls with a new input on one instance, in the reuse runs
MaxRepeats == 1     \* times the last input is converted again
MaxReuseNodes == 2  \* source nodes of a graph of the reuse family
MaxReuseEdges == 2  \* source edges of a graph of the reuse family
MaxOutputLen == 2   \* characters of a decision agent's output
MaxLooseNodes == 2  \* source nodes of a graph of the loose family
MaxLooseEdges == 3  \* source edges of a graph of the loose family
MaxWideWidth == 10  \* out-degree of the hub of a graph of the wide family
MaxClones == 2      \* clones made of the library, in the runs that follow the objects
MaxDraws == 4       \* calls of uuid.uuid4 whose outcome the run fixes
MaxPromptNodes == 2 \* source nodes of a workflow given to build_system_prompt
MaxPromptEdges == 2 \* source edges of a workflow given to build_system_prompt
MaxDocLen == 3      \* nodes of a reference document, in the runs that index any document
MaxHex == 4         \* values the fixed outcomes of uuid.uuid4().hex[:5] are drawn from

(* The depth threshold of the routing filter. *)
MAX_ROUTING_DEPTH == 1

-----------------------------------------------------------------------------
(* Values. *)

NoneId == [type |-> "None", n |-> 0]          \* Python's None where an id is expected
NoneName == "None"                            \* Python's None where a name is expected
Missing == "<missing>"                        \* the 'name' of a node dict without that key

Range(s) == {s[i] : i \in DOMAIN s}

EmptyMap == [k \in {} |-> NoneId]

\* dict.get(k): the value, or None
MapGet(m, k) == IF k \in DOMAIN m THEN m[k] ELSE NoneId

\* d[k] = v on a dict (insertion order is not observed through this map)
MapPut(m, k, v) == [x \in (DOMAIN m) \cup {k} |-> IF x = k THEN v ELSE m[x]]

RECURSIVE Perms(_)
\* every order in which a Python set of these elements may be iterated
Perms(S) == IF S = {} THEN {<<>>}
            ELSE UNION {{<<x>> \o p : p \in Perms(S \ {x})} : x \in S}

-----------------------------------------------------------------------------
(* _clone_component and the port registry. *)

LibKeys == {component_library[i].type : i \in DOMAIN component_library}

\* uuid.uuid4().hex[:5] at the k-th call: the outcome the run fixes for it, and
\* past those a value no other call yields
Hex(k) == IF k \in DOMAIN uuid_hex THEN uuid_hex[k] ELSE k

\* f"{component_type}-{uuid.uuid4().hex[:5]}"
NewId(component_type, seq) == [type |-> component_type, n |-> Hex(seq + 1)]

\* _clone_component: [ok, node, seq]; ok = FALSE is the ValueError
CloneComponent(component_type, seq) ==
    IF component_type \notin LibKeys
    THEN [ok |-> FALSE,
          node |-> [id |-> NoneId, operator |-> "", match_text |-> <<>>,
                    conditions |-> <<>>],
          seq |-> seq]
    ELSE [ok |-> TRUE,
          node |-> [id |-> NewId(component_type, seq), operator |-> "",
                    match_text |-> <<>>, conditions |-> <<>>],
          seq |-> seq + 1]

\* the id of the i-th node of the reference document; 0: the node of a template
\* that is loaded from a file of its own
TemplateId(i, t) == [type |-> t, n |-> 0 - i]

Untouched == "template"      \* the value of a field as the reference document has it
Converted == "converted"     \* the value the converter writes into a field

\* a node dict (id, position, data) and the dict under its 'data' key (id, type,
\* and of data.node: the prompt field, the API key field, the display name)
NodeObject(id, data_addr) == [id |-> id, position |-> Untouched, data |-> data_addr]
DataObject(id, type) ==
    [id |-> id, type |-> type, system_message |-> Untouched, api_key |-> Untouched,
     display_name |-> Untouched]

EmptyHeap == [node |-> <<>>, data |-> <<>>]

\* copy.deepcopy(node) of the i-th node of a document, or json.load of a
\* template file: a new node object with a data object of its own
NewTemplate(h, i, t) ==
    [node |-> Append(h.node, NodeObject(TemplateId(i, t), Len(h.data) + 1)),
     data |-> Append(h.data, DataObject(TemplateId(i, t), t))]

\* self.component_library[component_type]: the address of the template
TemplateAddr(component_type) ==
    component_library[CHOOSE i \in DOMAIN component_library :
                          component_library[i].type = component_type].addr

\* a faulty clone, against which C24 is tried: copy.copy, a new node object that
\* shares the template's data object
CloneObjectShallow(h, component_type, seq) ==
    IF component_type \notin LibKeys
    THEN [ok |-> FALSE, heap |-> h, addr |-> 0, seq |-> seq]
    ELSE LET tn == h.node[TemplateAddr(component_type)]
         IN  [ok |-> TRUE,
              heap |-> [node |-> Append(h.node, [tn EXCEPT !.id = NewId(component_type, seq)]),
                        data |-> [h.data EXCEPT ![tn.data].id = NewId(component_type, seq)]],
              addr |-> Len(h.node) + 1,
              seq |-> seq + 1]

\* _clone_component on the heap, lines 710-727: [ok, heap, addr, seq]; a deep copy
\* of the template, then cloned['id'] and cloned['data']['id'] are set
CloneObject(h, component_type, seq) ==
    IF component_type \notin LibKeys
    THEN [ok |-> FALSE, heap |-> h, addr |-> 0, seq |-> seq]
    ELSE LET tn == h.node[TemplateAddr(component_type)]
         IN  [ok |-> TRUE,
              heap |-> [node |-> Append(h.node,
                                    [tn EXCEPT !.id = NewId(component_type, seq),
                                               !.data = Len(h.data) + 1]),
                        data |-> Append(h.data,
                                    [h.data[tn.data] EXCEPT
                                        !.id = NewId(component_type, seq)])],
              addr |-> Len(h.node) + 1,
              seq |-> seq + 1]

\* 'Model' in key or 'Agent' in key, on the type names of the model
ModelLike(key) == key \in {"Agent", "OpenAIModel", "AnthropicModel"}

\* VAPIToLangflowUnified._clone_component: a missing OpenAIModel falls back to the
\* first key of the library that names a model or an agent
UnifiedCloneObject(h, component_type, seq) ==
    IF component_type \in LibKeys THEN CloneObject(h, component_type, seq)
    ELSE IF /\ component_type = "OpenAIModel"
            /\ \E i \in DOMAIN component_library : ModelLike(component_library[i].type)
    THEN CloneObject(h,
             component_library[CHOOSE i \in DOMAIN component_library :
                 /\ ModelLike(component_library[i].type)
                 /\ \A j \in 1..(i - 1) : ~ModelLike(component_library[j].type)].type,
             seq)
    ELSE [ok |-> FALSE, heap |-> h, addr |-> 0, seq |-> seq]

\* list(self.component_library.keys())[0]; "" stands for the IndexError
FirstKey == IF Len(component_library) > 0 THEN component_library[1].type ELSE ""

\* the component type _convert_vapi_node clones for a node of this VAPI type
ComponentTypeFor(node_type) ==
    IF node_type = "conversation"
    THEN (IF "Agent" \in LibKeys THEN "Agent"
          ELSE IF "OpenAIModel" \in LibKeys THEN "OpenAIModel" ELSE FirstKey)
    ELSE IF node_type = "tool"
    THEN (IF "ChatOutput" \in LibKeys THEN "ChatOutput" ELSE FirstKey)
    ELSE FirstKey

\* _convert_vapi_node: the clone for the node (position and prompt are not modelled)
ConvertVapiNode(vapi_node, seq) == CloneComponent(ComponentTypeFor(vapi_node.type), seq)

\* a faulty port registry, against which C6 is tried: the exit adapter's input
\* does not accept Message
IoInfoNoMessage(node_id) ==
    CASE node_id.type = "ChatInput" ->
           [type |-> "ChatInput", output_name |-> "message", output_types |-> <<"Message">>,
            input_name |-> "input_value", input_types |-> <<"Message">>, input_type |-> "str"]
      [] node_id.type = "OpenAIModel" ->
           [type |-> "OpenAIModel", output_name |-> "text_output",
            output_types |-> <<"Message">>,
            input_name |-> "input_value", input_types |-> <<"Message">>, input_type |-> "str"]
      [] node_id.type = "Agent" ->
           [type |-> "Agent", output_name |-> "response", output_types |-> <<"Message">>,
            input_name |-> "input_value", input_types |-> <<"Message">>, input_type |-> "str"]
      [] node_id.type = "ConditionalRouter" ->
           [type |-> "ConditionalRouter", output_name |-> "true_result",
            output_types |-> <<"Message">>,
            input_name |-> "input_text", input_types |-> <<"Message">>, input_type |-> "str"]
      [] node_id.type = "ChatOutput" ->
           [type |-> "ChatOutput", output_name |-> "message", output_types |-> <<"Message">>,
            input_name |-> "input_value",
            input_types |-> <<"Data", "DataFrame">>, input_type |-> "other"]
      [] OTHER ->
           [type |-> "Component", output_name |-> "output", output_types |-> <<"Message">>,
            input_name |-> "input_value", input_types |-> <<"Message">>, input_type |-> "str"]

\* _get_component_io_info: the ports of a node, found from the prefix of its id
IoInfo(node_id) ==
    CASE node_id.type = "ChatInput" ->
           [type |-> "ChatInput", output_name |-> "message", output_types |-> <<"Message">>,
            input_name |-> "input_value", input_types |-> <<"Message">>, input_type |-> "str"]
      [] node_id.type = "OpenAIModel" ->
           [type |-> "OpenAIModel", output_name |-> "text_output",
            output_types |-> <<"Message">>,
            input_name |-> "input_value", input_types |-> <<"Message">>, input_type |-> "str"]
      [] node_id.type = "Agent" ->
           [type |-> "Agent", output_name |-> "response", output_types |-> <<"Message">>,
            input_name |-> "input_value", input_types |-> <<"Message">>, input_type |-> "str"]
      [] node_id.type = "ConditionalRouter" ->
           [type |-> "ConditionalRouter", output_name |-> "true_result",
            output_types |-> <<"Message">>,
            input_name |-> "input_text", input_types |-> <<"Message">>, input_type |-> "str"]
      [] node_id.type = "ChatOutput" ->
           [type |-> "ChatOutput", output_name |-> "message", output_types |-> <<"Message">>,
            input_name |-> "input_value",
            input_types |-> <<"Data", "DataFrame", "Message">>, input_type |-> "other"]
      [] OTHER ->
           [type |-> "Component", output_name |-> "output", output_types |-> <<"Message">>,
            input_name |-> "input_value", input_types |-> <<"Message">>, input_type |-> "str"]

\* the edge both edge constructors build, given the output handle's name
MakeEdge(source_id, target_id, output_name, condition) ==
    [source |-> source_id, target |-> target_id,
     dataType |-> IoInfo(source_id).type,
     name |-> output_name,
     output_types |-> IoInfo(source_id).output_types,
     fieldName |-> IoInfo(target_id).input_name,
     inputTypes |-> IoInfo(target_id).input_types,
     type |-> IoInfo(target_id).input_type,
     vapiCondition |-> condition]

\* _create_edge raises AttributeError (None.startswith) when an id is None
EdgeRaises(source_id, target_id) == source_id = NoneId \/ target_id = NoneId

\* _create_edge: condition 0 is "no condition"
CreateEdge(source_id, target_id, condition) ==
    MakeEdge(source_id, target_id, IoInfo(source_id).output_name, condition)

\* _create_edge_with_specific_output
CreateEdgeWithSpecificOutput(source_id, target_id, output_name) ==
    MakeEdge(source_id, target_id, output_name, 0)

-----------------------------------------------------------------------------
(* convert(), lines 278-329: the entry adapter, one node per source node,   *)
(* the exit adapter.                                                        *)

\* lines 279-287: [nodes, chat_input_id, seq]
AddChatInput(seq) ==
    IF "ChatInput" \in LibKeys
    THEN LET c == CloneComponent("ChatInput", seq)
         IN  [nodes |-> <<c.node>>, chat_input_id |-> c.node.id, seq |-> c.seq]
    ELSE [nodes |-> <<>>, chat_input_id |-> NoneId, seq |-> seq]

\* line 290: edge_targets
EdgeTargets(ve) == {ve[i].to : i \in DOMAIN ve}

\* line 293: start_node_name = vapi_nodes[0]['name'] if vapi_nodes else None
FirstNodeName(vn) == IF Len(vn) > 0 THEN vn[1].name ELSE NoneName

\* line 300: vapi_node.get('name', f'node_{i}'), i counting from 0
NodeLabels == <<"node_0", "node_1", "node_2", "node_3">>
NodeLabel(vn, i) == IF vn[i].name = Missing THEN NodeLabels[i] ELSE vn[i].name

\* line 303: the orphan test of the node loop
IsOrphan(node_name, vn, ve) ==
    node_name \notin EdgeTargets(ve) /\ node_name # FirstNodeName(vn)

RECURSIVE ConvertNodes(_, _, _, _)
\* lines 299-316: acc = [nodes, id_map, seq]; a clone that raises is caught per
\* node; so is the KeyError of line 310 for a node without a name, after line 309
\* has appended its clone
ConvertNodes(vn, ve, i, acc) ==
    IF i > Len(vn) THEN acc
    ELSE IF IsOrphan(NodeLabel(vn, i), vn, ve) THEN ConvertNodes(vn, ve, i + 1, acc)
    ELSE LET c == ConvertVapiNode(vn[i], acc.seq)
         IN  IF ~c.ok THEN ConvertNodes(vn, ve, i + 1, acc)
             ELSE IF vn[i].name = Missing
             THEN ConvertNodes(vn, ve, i + 1,
                      [acc EXCEPT !.nodes = Append(acc.nodes, c.node), !.seq = c.seq])
             ELSE ConvertNodes(vn, ve, i + 1,
                      [nodes |-> Append(acc.nodes, c.node),
                       id_map |-> MapPut(acc.id_map, vn[i].name, c.node.id),
                       seq |-> c.seq])

\* lines 319-329: [nodes, chat_output_id, seq]
AddChatOutput(ns, seq) ==
    IF "ChatOutput" \in LibKeys
    THEN LET c == CloneComponent("ChatOutput", seq)
         IN  [nodes |-> Append(ns, c.node), chat_output_id |-> c.node.id, seq |-> c.seq]
    ELSE [nodes |-> ns, chat_output_id |-> NoneId, seq |-> seq]

\* lines 263-329: the locals after the node phase; line 263 draws the flow's own
\* id; line 293 raises KeyError when the first node has no name
CreateNodes(vn, ve, seq, rc) ==
    LET ci == AddChatInput(seq + 1)
        cv == ConvertNodes(vn, ve, 1, [nodes |-> ci.nodes, id_map |-> EmptyMap, seq |-> ci.seq])
        co == AddChatOutput(cv.nodes, cv.seq)
    IN  IF FirstNodeName(vn) = Missing
        THEN [ok |-> FALSE, nodes |-> ci.nodes, edges |-> <<>>, id_map |-> EmptyMap,
              seq |-> ci.seq, rc |-> rc,
              chat_input_id |-> ci.chat_input_id, chat_output_id |-> NoneId,
              start_node_name |-> NoneName, first_level_set |-> {}]
        ELSE [ok |-> TRUE, nodes |-> co.nodes, edges |-> <<>>, id_map |-> cv.id_map,
              seq |-> co.seq, rc |-> rc,
              chat_input_id |-> ci.chat_input_id, chat_output_id |-> co.chat_output_id,
              start_node_name |-> FirstNodeName(vn), first_level_set |-> {}]

-----------------------------------------------------------------------------
(* The graph analysis: branch points and BFS depths.                        *)

RECURSIVE FromOrder(_, _, _)
\* the keys of `outgoing` in insertion order: each from-name at its first edge
FromOrder(ve, i, acc) ==
    IF i > Len(ve) THEN acc
    ELSE FromOrder(ve, i + 1,
                   IF ve[i].from \in Range(acc) THEN acc ELSE Append(acc, ve[i].from))

\* outgoing[name]: the edges leaving name, in declaration order
Outgoing(ve, name) == SelectSeq(ve, LAMBDA e : e.from = name)

\* a faulty grouping, against which C22 is tried: the edges of a group are
\* collected last declared first
FindBranchingNodesReversed(ve) ==
    LET keys == FromOrder(ve, 1, <<>>)
        all  == [i \in 1..Len(keys) |->
                    [name |-> keys[i],
                     edges |-> [k \in 1..Len(Outgoing(ve, keys[i])) |->
                                   Outgoing(ve, keys[i])[Len(Outgoing(ve, keys[i])) + 1 - k]]]]
    IN  SelectSeq(all, LAMBDA b : Len(b.edges) >= 2)

\* _find_branching_nodes: the from-names with >= 2 edges, as [name, edges] in dict order
FindBranchingNodes(ve) ==
    LET keys == FromOrder(ve, 1, <<>>)
        all  == [i \in 1..Len(keys) |-> [name |-> keys[i], edges |-> Outgoing(ve, keys[i])]]
    IN  SelectSeq(all, LAMBDA b : Len(b.edges) >= 2)

\* lines 1048-1055: the node the BFS starts from
DepthStartName(vn) ==
    LET start_nodes == SelectSeq(vn, LAMBDA n : n.isStart)
    IN  IF Len(start_nodes) > 0 THEN start_nodes[1].name ELSE vn[1].name

RECURSIVE VisitNeighborsOverwrite(_, _, _, _)
\* a faulty neighbour loop, against which C21 is tried: the depth of a neighbour
\* that was already seen is overwritten (it is not queued again)
VisitNeighborsOverwrite(nbrs, i, current_depth, st) ==
    IF i > Len(nbrs) THEN st
    ELSE VisitNeighborsOverwrite(nbrs, i + 1, current_depth,
             [depths |-> [x \in (DOMAIN st.depths) \cup {nbrs[i].to} |->
                             IF x = nbrs[i].to THEN current_depth + 1
                             ELSE st.depths[x]],
              queue |-> IF nbrs[i].to \in DOMAIN st.depths THEN st.queue
                        ELSE Append(st.queue, nbrs[i].to)])

RECURSIVE VisitNeighbors(_, _, _, _)
\* lines 1076-1079: st = [depths, queue]
VisitNeighbors(nbrs, i, current_depth, st) ==
    IF i > Len(nbrs) THEN st
    ELSE VisitNeighbors(nbrs, i + 1, current_depth,
             IF nbrs[i].to \in DOMAIN st.depths THEN st
             ELSE [depths |-> [x \in (DOMAIN st.depths) \cup {nbrs[i].to} |->
                                  IF x = nbrs[i].to THEN current_depth + 1
                                  ELSE st.depths[x]],
                   queue |-> Append(st.queue, nbrs[i].to)])

RECURSIVE Bfs(_, _)
\* lines 1071-1079: the queue loop
Bfs(ve, st) ==
    IF st.queue = <<>> THEN st.depths
    ELSE LET current == Head(st.queue)
         IN  Bfs(ve, VisitNeighbors(Outgoing(ve, current), 1, st.depths[current],
                                    [depths |-> st.depths, queue |-> Tail(st.queue)]))

\* _calculate_node_depths: name -> depth, for the names the BFS reaches
CalculateNodeDepths(vn, ve) ==
    IF Len(vn) = 0 THEN [x \in {} |-> 0]
    ELSE Bfs(ve, [depths |-> [x \in {DepthStartName(vn)} |-> 0],
                  queue |-> <<DepthStartName(vn)>>])

\* node_depths.get(node_name, 999)
DepthOf(depths, name) == IF name \in DOMAIN depths THEN depths[name] ELSE 999

\* lines 349-354: first_level_branching, in dict order
FirstLevelBranching(vn, ve) ==
    LET depths == CalculateNodeDepths(vn, ve)
    IN  SelectSeq(FindBranchingNodes(ve),
                  LAMBDA b : DepthOf(depths, b.name) <= MAX_ROUTING_DEPTH)

-----------------------------------------------------------------------------
(* The routing compiler: _create_router_agent, _create_conditional_router,  *)
(* _insert_routing_logic, and the loop of convert() that calls it.          *)

Digit == <<"0", "1", "2", "3", "4", "5", "6", "7", "8", "9">>

RECURSIVE Str(_)
\* str(i) of a non-negative integer, as its sequence of characters
Str(i) == IF i < 10 THEN <<Digit[i + 1]>> ELSE Str(i \div 10) \o <<Digit[(i % 10) + 1]>>

\* a faulty decision-agent constructor, against which C13 is tried: without an
\* Agent template it falls back to the first template of the library
CreateRouterAgentFallback(conditions, seq) ==
    LET c == CloneComponent(IF "Agent" \in LibKeys THEN "Agent" ELSE FirstKey, seq)
    IN  [c EXCEPT !.node.conditions =
                      [i \in 1..Len(conditions) |-> <<Str(i), conditions[i]>>]]

\* _create_router_agent: an Agent clone whose prompt lists the conditions, numbered
\* from 1 in the order given; the missing Agent template is the ValueError
CreateRouterAgent(conditions, seq) ==
    LET c == CloneComponent("Agent", seq)
    IN  [c EXCEPT !.node.conditions =
                      [i \in 1..Len(conditions) |-> <<Str(i), conditions[i]>>]]

\* a faulty gate constructor, against which C2 is tried: the gate tests the next
\* decision number
CreateConditionalRouterShifted(condition_index, seq) ==
    LET c == CloneComponent("ConditionalRouter", seq)
    IN  [c EXCEPT !.node.operator = "contains",
                  !.node.match_text = Str(condition_index + 1)]

\* _create_conditional_router: operator 'contains', match_text = str(condition_index)
CreateConditionalRouter(condition_index, seq) ==
    LET c == CloneComponent("ConditionalRouter", seq)
    IN  [c EXCEPT !.node.operator = "contains",
                  !.node.match_text = Str(condition_index)]

RECURSIVE CreateRouters(_, _, _)
\* the gates _insert_routing_logic creates, testing 1..count: acc = [ok, nodes, seq]
CreateRouters(count, i, acc) ==
    IF i > count \/ ~acc.ok THEN acc
    ELSE LET c == CreateConditionalRouter(i, acc.seq)
         IN  CreateRouters(count, i + 1,
                 [ok |-> c.ok,
                  nodes |-> IF c.ok THEN Append(acc.nodes, c.node) ELSE acc.nodes,
                  seq |-> c.seq])

\* lines 1269, 1290: one gate for two branches, else range(num_branches - 1)
RouterCount(num_branches) == IF num_branches = 2 THEN 1 ELSE num_branches - 1

\* position of source_name's entry in the dict, 0 when it has none
RoutingIndex(items, source_name) ==
    IF \E i \in DOMAIN items : items[i].source_name = source_name
    THEN CHOOSE i \in DOMAIN items : items[i].source_name = source_name
    ELSE 0

\* a faulty store, against which C7 is tried: an entry recorded by an earlier
\* conversion is kept (setdefault) instead of replaced
StoreRoutingKeep(rc, entry) ==
    LET i == RoutingIndex(rc.items, entry.source_name)
    IN  [set |-> TRUE,
         items |-> IF i = 0 THEN Append(rc.items, entry) ELSE rc.items]

\* lines 1260-1265: self._routing_components = getattr(...); [source_name] = {...}
StoreRouting(rc, entry) ==
    LET i == RoutingIndex(rc.items, entry.source_name)
    IN  [set |-> TRUE,
         items |-> IF i = 0 THEN Append(rc.items, entry)
                   ELSE [rc.items EXCEPT ![i] = entry]]

\* _insert_routing_logic, and line 381 that extends the node list with its result
InsertRoutingLogic(L, b) ==
    LET num_branches == Len(b.edges)
        conditions == [i \in 1..num_branches |-> b.edges[i].cond]
        ra == CreateRouterAgent(conditions, L.seq)
        entry == [source_name |-> b.name, router_agent_id |-> ra.node.id,
                  edges |-> b.edges, num_branches |-> num_branches,
                  routing_pattern |-> "unset", router_ids |-> <<>>]
        gates == CreateRouters(RouterCount(num_branches), 1,
                               [ok |-> TRUE, nodes |-> <<>>, seq |-> ra.seq])
    IN  IF ~ra.ok THEN [L EXCEPT !.ok = FALSE]
        ELSE IF ~gates.ok
        THEN [L EXCEPT !.ok = FALSE, !.seq = gates.seq, !.rc = StoreRouting(L.rc, entry)]
        ELSE [L EXCEPT
                !.nodes = L.nodes \o <<ra.node>> \o gates.nodes,
                !.seq = gates.seq,
                !.rc = StoreRouting(L.rc,
                          [entry EXCEPT
                              !.routing_pattern =
                                  IF num_branches = 2 THEN "simple" ELSE "cascade",
                              !.router_ids = [i \in 1..Len(gates.nodes) |->
                                                 gates.nodes[i].id]])]

RECURSIVE InsertAll(_, _, _)
\* lines 361-382: a branch point without a target node is skipped with a warning
InsertAll(fl, i, L) ==
    IF i > Len(fl) \/ ~L.ok THEN L
    ELSE IF MapGet(L.id_map, fl[i].name) = NoneId THEN InsertAll(fl, i + 1, L)
    ELSE InsertAll(fl, i + 1, InsertRoutingLogic(L, fl[i]))

\* lines 335-393 and 411: routing for the first-level branch points; line 1055
\* raises KeyError when the node the BFS starts from has no name
InsertRouting(L, vn, ve) ==
    LET fl == IF FindBranchingNodes(ve) = <<>> THEN <<>> ELSE FirstLevelBranching(vn, ve)
    IN  IF ~L.ok THEN L
        ELSE IF FindBranchingNodes(ve) # <<>> /\ Len(vn) > 0 /\ DepthStartName(vn) = Missing
        THEN [L EXCEPT !.ok = FALSE]
        ELSE [InsertAll(fl, 1, L) EXCEPT !.first_level_set = {fl[i].name : i \in DOMAIN fl}]

-----------------------------------------------------------------------------
(* convert(), lines 395-589: the edges.                                     *)

\* the locals with one more edge; a None endpoint makes the constructor raise
AddEdge(L, source_id, target_id, edge) ==
    IF EdgeRaises(source_id, target_id) THEN [L EXCEPT !.ok = FALSE]
    ELSE [L EXCEPT !.edges = Append(L.edges, edge)]

\* line 400: next((n for n in vapi_nodes if n.get('isStart')), vapi_nodes[0])
EntryStartName(vn) ==
    LET start_nodes == SelectSeq(vn, LAMBDA n : n.isStart)
    IN  IF Len(start_nodes) > 0 THEN start_nodes[1].name ELSE vn[1].name

\* lines 399-405: ChatInput -> the start node's target node; line 401 raises
\* KeyError when the start node has no name
ConnectChatInput(L, vn) ==
    IF L.ok /\ L.chat_input_id # NoneId /\ Len(vn) > 0 /\ EntryStartName(vn) = Missing
    THEN [L EXCEPT !.ok = FALSE]
    ELSE IF L.ok /\ L.chat_input_id # NoneId /\ Len(vn) > 0
       /\ MapGet(L.id_map, EntryStartName(vn)) # NoneId
    THEN AddEdge(L, L.chat_input_id, MapGet(L.id_map, EntryStartName(vn)),
                 CreateEdge(L.chat_input_id, MapGet(L.id_map, EntryStartName(vn)), 0))
    ELSE L

\* a faulty routing test, against which C12 is tried: no edge is left to the
\* routing logic
HandledByRoutingNever(L, vapi_edge) == vapi_edge.from \in {}

\* lines 421-424: the edge is left to the routing logic
HandledByRouting(L, vapi_edge) == vapi_edge.from \in L.first_level_set

RECURSIVE DirectEdges(_, _, _)
\* lines 413-445: one direct edge per source edge that is not routed and whose
\* endpoints both have target nodes
DirectEdges(L, ve, i) ==
    IF i > Len(ve) \/ ~L.ok THEN L
    ELSE LET from_id == MapGet(L.id_map, ve[i].from)
             to_id   == MapGet(L.id_map, ve[i].to)
         IN  IF HandledByRouting(L, ve[i]) THEN DirectEdges(L, ve, i + 1)
             ELSE IF from_id # NoneId /\ to_id # NoneId
             THEN DirectEdges(AddEdge(L, from_id, to_id,
                                      CreateEdge(from_id, to_id, ve[i].cond)), ve, i + 1)
             ELSE DirectEdges(L, ve, i + 1)

\* line 452: the start node name of the routing-edge phase
RoutingStartName(vn) ==
    IF Len(vn) = 0 THEN NoneName
    ELSE LET start_nodes == SelectSeq(vn, LAMBDA n : n.isStart)
         IN  IF Len(start_nodes) > 0 THEN start_nodes[1].name ELSE vn[1].name

\* lines 462-470: ChatInput -> router for the start node, else source -> router
RouterEntryEdge(L, r) ==
    IF L.chat_input_id # NoneId /\ r.source_name = L.start_node_name
    THEN AddEdge(L, L.chat_input_id, r.router_agent_id,
                 CreateEdge(L.chat_input_id, r.router_agent_id, 0))
    ELSE AddEdge(L, MapGet(L.id_map, r.source_name), r.router_agent_id,
                 CreateEdge(MapGet(L.id_map, r.source_name), r.router_agent_id, 0))

\* an edge from a gate's output to the target node of a source name, when it has one
GateEdge(L, cond_router_id, output_name, target_name) ==
    IF L.ok /\ MapGet(L.id_map, target_name) # NoneId
    THEN AddEdge(L, cond_router_id, MapGet(L.id_map, target_name),
                 CreateEdgeWithSpecificOutput(cond_router_id,
                     MapGet(L.id_map, target_name), output_name))
    ELSE L

\* lines 472-503: router -> gate, gate true -> first target, gate false -> second
SimpleEdges(L, r) ==
    LET cond_router_id == r.router_ids[1]
        L1 == AddEdge(L, r.router_agent_id, cond_router_id,
                      CreateEdge(r.router_agent_id, cond_router_id, 0))
        L2 == GateEdge(L1, cond_router_id, "true_result", r.edges[1].to)
    IN  GateEdge(L2, cond_router_id, "false_result", r.edges[2].to)

RECURSIVE CascadeChainNoDefault(_, _, _)
\* a faulty chain, against which C29 is tried: the false output of the last gate
\* is left unwired
CascadeChainNoDefault(L, r, i) ==
    IF i > Len(r.router_ids) \/ ~L.ok THEN L
    ELSE LET cond_router_id == r.router_ids[i]
             L1 == GateEdge(L, cond_router_id, "true_result", r.edges[i].to)
             L2 == IF i < Len(r.router_ids)
                   THEN AddEdge(L1, cond_router_id, r.router_ids[i + 1],
                            CreateEdgeWithSpecificOutput(cond_router_id,
                                r.router_ids[i + 1], "false_result"))
                   ELSE L1
         IN  CascadeChainNoDefault(L2, r, i + 1)

RECURSIVE CascadeChain(_, _, _)
\* lines 517-551: gate i true -> target i; false -> gate i+1, or the last target
CascadeChain(L, r, i) ==
    IF i > Len(r.router_ids) \/ ~L.ok THEN L
    ELSE LET cond_router_id == r.router_ids[i]
             L1 == GateEdge(L, cond_router_id, "true_result", r.edges[i].to)
             L2 == IF i < Len(r.router_ids)
                   THEN AddEdge(L1, cond_router_id, r.router_ids[i + 1],
                            CreateEdgeWithSpecificOutput(cond_router_id,
                                r.router_ids[i + 1], "false_result"))
                   ELSE GateEdge(L1, cond_router_id, "false_result",
                                 r.edges[Len(r.edges)].to)
         IN  CascadeChain(L2, r, i + 1)

\* lines 505-551: router -> first gate, then the chain
CascadeEdges(L, r) ==
    CascadeChain(AddEdge(L, r.router_agent_id, r.router_ids[1],
                         CreateEdge(r.router_agent_id, r.router_ids[1], 0)), r, 1)

\* lines 454-551 for one entry of self._routing_components; an entry without a
\* routing_pattern is the KeyError of line 458
RoutingEdgesFor(L, r) ==
    IF r.routing_pattern = "unset" THEN [L EXCEPT !.ok = FALSE]
    ELSE LET L1 == RouterEntryEdge(L, r)
         IN  IF ~L1.ok THEN L1
             ELSE IF r.routing_pattern = "simple" THEN SimpleEdges(L1, r)
             ELSE CascadeEdges(L1, r)

RECURSIVE RoutingLoop(_, _)
\* line 454: for source_name, routing_info in self._routing_components.items()
RoutingLoop(L, i) ==
    IF i > Len(L.rc.items) \/ ~L.ok THEN L
    ELSE RoutingLoop(RoutingEdgesFor(L, L.rc.items[i]), i + 1)

\* lines 448-551: runs over every entry the instance holds; line 452 raises
\* KeyError when the start node has no name
RoutingEdges(L, vn) ==
    IF L.ok /\ L.rc.set /\ L.rc.items # <<>> /\ RoutingStartName(vn) = Missing
    THEN [L EXCEPT !.ok = FALSE]
    ELSE IF L.ok /\ L.rc.set /\ L.rc.items # <<>>
    THEN RoutingLoop([L EXCEPT !.start_node_name = RoutingStartName(vn)], 1)
    ELSE L

\* lines 554-558: the target nodes of the names no source edge leaves
TerminalNodes(L, ve) ==
    Range(L.id_map) \ {L.id_map[ve[i].from] : i \in {j \in DOMAIN ve : ve[j].from \in DOMAIN L.id_map}}

\* lines 561-567: the targets of the edges built so far, and the start node
ReachableNodes(L) ==
    {L.edges[i].target : i \in DOMAIN L.edges}
    \cup (IF L.start_node_name # NoneName /\ L.start_node_name \in DOMAIN L.id_map
          THEN {L.id_map[L.start_node_name]} ELSE {})

\* lines 574, 579: the name whose target node has this id
TerminalName(L, terminal_id) ==
    CHOOSE name \in DOMAIN L.id_map : L.id_map[name] = terminal_id

RECURSIVE ExitLoop(_, _, _, _)
\* lines 571-589: order is the order in which the set terminal_nodes is iterated;
\* reachable is computed once, before the loop
ExitLoop(L, order, i, reachable) ==
    IF i > Len(order) \/ ~L.ok THEN L
    ELSE IF order[i] \notin reachable THEN ExitLoop(L, order, i + 1, reachable)
    ELSE IF TerminalName(L, order[i]) = L.start_node_name
    THEN (IF ~L.rc.set THEN [L EXCEPT !.ok = FALSE]      \* AttributeError, line 583
          ELSE IF RoutingIndex(L.rc.items, L.start_node_name) # 0
          THEN ExitLoop(L, order, i + 1, reachable)
          ELSE ExitLoop(AddEdge(L, order[i], L.chat_output_id,
                                CreateEdge(order[i], L.chat_output_id, 0)),
                        order, i + 1, reachable))
    ELSE ExitLoop(AddEdge(L, order[i], L.chat_output_id,
                          CreateEdge(order[i], L.chat_output_id, 0)),
                  order, i + 1, reachable)

\* lines 553-589: terminal nodes -> ChatOutput
ConnectChatOutput(L, ve, order) ==
    IF L.ok /\ L.chat_output_id # NoneId /\ TerminalNodes(L, ve) # {}
    THEN ExitLoop(L, order, 1, ReachableNodes(L))
    ELSE L

\* convert() up to line 551: everything before the terminal nodes are wired
ConvertBody(vn, ve, seq, rc) ==
    LET L1 == CreateNodes(vn, ve, seq, rc)
        L2 == InsertRouting(L1, vn, ve)
        L3 == ConnectChatInput(L2, vn)
        L4 == DirectEdges(L3, ve, 1)
    IN  RoutingEdges(L4, vn)

\* convert(): the locals when it returns (ok) or raises (~ok)
ConvertResult(vn, ve, seq, rc, order) == ConnectChatOutput(ConvertBody(vn, ve, seq, rc), ve, order)

-----------------------------------------------------------------------------
(* The source graphs fed to convert().                                      *)

Pool == <<"start", "billing", "support", "sales", "tech", "legal">>
LeafPool == <<"leaf1", "leaf2", "leaf3", "leaf4", "leaf5", "leaf6", "leaf7", "leaf8",
              "leaf9", "leaf10", "leaf11", "leaf12">>
Spine == <<"start", "A", "B">>

VapiNode(name, isStart, type) == [name |-> name, isStart |-> isStart, type |-> type]
VapiEdge(from, to, cond) == [from |-> from, to |-> to, cond |-> cond]

\* the VAPI type of node i: every node a conversation node, but node k of type t
KindOf(i, k, t) == IF i = k THEN t ELSE "conversation"

\* n declared nodes, node s marked isStart (0: none), edges between declared nodes;
\* edge i carries the condition text i
GeneralGraph(n, s, k, t, pairs) ==
    [nodes |-> [i \in 1..n |-> VapiNode(Pool[i], i = s, KindOf(i, k, t))],
     edges |-> [i \in 1..Len(pairs) |-> VapiEdge(Pool[pairs[i][1]], Pool[pairs[i][2]], i)]]

EdgeLists(n, maxlen) == UNION {[1..len -> (1..n) \X (1..n)] : len \in 0..maxlen}

\* which node is not a conversation node, and its type
KindPatterns(n) == {<<0, "conversation">>} \cup ((1..n) \X {"tool", "other"})

RECURSIVE SpinePairs(_, _, _)
\* the edges of the spine nodes above the hub: to the next spine node, and a side
\* edge to the end node when the node's width is 2
SpinePairs(d, ws, i) ==
    IF i > d THEN <<>>
    ELSE <<<<Spine[i], Spine[i + 1]>>>>
         \o (IF ws[i] = 2 THEN <<<<Spine[i], "end">>>> ELSE <<>>)
         \o SpinePairs(d, ws, i + 1)

\* a chain start -> ... -> hub of d edges, the hub (at depth d) with k edges to k
\* leaves, declared in leaf order or (rev) in reverse leaf order; every leaf
\* leads to the end node
TreeGraph(d, ws, k, rev, st) ==
    LET names == [i \in 1..(d + 1) |-> Spine[i]]
                 \o [j \in 1..k |-> LeafPool[j]]
                 \o <<"end">>
        pairs == SpinePairs(d, ws, 1)
                 \o [j \in 1..k |->
                        <<Spine[d + 1], LeafPool[IF rev THEN k + 1 - j ELSE j]>>]
                 \o [j \in 1..k |-> <<LeafPool[j], "end">>]
    IN  [nodes |-> [i \in 1..Len(names) |-> VapiNode(names[i], st /\ i = 1, "conversation")],
         edges |-> [i \in 1..Len(pairs) |-> VapiEdge(pairs[i][1], pairs[i][2], i)]]

\* the name an edge of the loose family gives for endpoint j of n declared nodes:
\* a declared node, or (j = n + 1) a name no node declares
LooseName(n, j) == IF j <= n THEN Pool[j] ELSE "ghost"

\* n declared conversation nodes, node s marked isStart (0: none); the edges may
\* name an undeclared node, and edge i carries the condition text i or none (0)
LooseGraph(n, s, el) ==
    [nodes |-> [i \in 1..n |-> VapiNode(Pool[i], i = s, "conversation")],
     edges |-> [i \in 1..Len(el) |->
                   VapiEdge(LooseName(n, el[i][1]), LooseName(n, el[i][2]),
                            IF el[i][3] THEN i ELSE 0)]]

LooseEdgeLists(n, maxlen) ==
    UNION {[1..len -> (1..(n + 1)) \X (1..(n + 1)) \X BOOLEAN] : len \in 0..maxlen}

\* the name by which an edge of the malformed family refers to node j
MalformedName(miss, j) == IF j \in miss THEN NodeLabels[j] ELSE Pool[j]

\* n declared conversation nodes, node s marked isStart (0: none), the nodes in
\* miss without a name; an edge refers to a node without a name by node_<index>
MalformedGraph(n, s, miss, pairs) ==
    [nodes |-> [i \in 1..n |->
                   VapiNode(IF i \in miss THEN Missing ELSE Pool[i], i = s, "conversation")],
     edges |-> [i \in 1..Len(pairs) |->
                   VapiEdge(MalformedName(miss, pairs[i][1]),
                            MalformedName(miss, pairs[i][2]), i)]]

\* the sizes of the graphs of a family: node counts, or hub depths for the trees
Sizes(f) == CASE f = "general" -> 0..MaxNodes
              [] f = "reuse"   -> 0..MaxReuseNodes
              [] f = "tree"    -> 0..(MAX_ROUTING_DEPTH + 1)
              [] f = "loose"   -> 0..MaxLooseNodes
              [] f = "small"   -> 0..MaxReuseNodes
              [] f = "malformed" -> 0..MaxLooseNodes
              [] f = "wide"    -> 0..MAX_ROUTING_DEPTH

\* the shapes of the graphs of one size.  general: every graph of up to MaxNodes
\* nodes and MaxEdges edges; reuse: small graphs of conversation nodes; tree: hubs
\* of width 2..MaxWidth at depth 0..MAX_ROUTING_DEPTH + 1; loose: small graphs
\* whose edges may name undeclared nodes and may lack a condition; small: the
\* general graphs of the size of the reuse family; malformed: small graphs in
\* which nodes may lack a name; wide: the trees whose hub is within the depth
\* threshold, of width 2..MaxWideWidth
Shapes(f, n) ==
    CASE f = "general" -> (0..n) \X KindPatterns(n) \X EdgeLists(n, MaxEdges)
      [] f = "reuse"   -> (0..n) \X {<<0, "conversation">>} \X EdgeLists(n, MaxReuseEdges)
      [] f = "tree"    -> [1..n -> {1, 2}] \X (2..MaxWidth) \X BOOLEAN \X BOOLEAN
      [] f = "loose"   -> (0..n) \X LooseEdgeLists(n, MaxLooseEdges)
      [] f = "small"   -> (0..n) \X KindPatterns(n) \X EdgeLists(n, MaxReuseEdges)
      [] f = "malformed" -> (0..n) \X (SUBSET (1..n)) \X EdgeLists(n, MaxLooseEdges)
      [] f = "wide"    -> [1..n -> {1, 2}] \X (2..MaxWideWidth) \X BOOLEAN \X BOOLEAN

InputGraph(f, n, p) ==
    IF f \in {"tree", "wide"} THEN TreeGraph(n, p[1], p[2], p[3], p[4])
    ELSE IF f = "loose" THEN LooseGraph(n, p[1], p[2])
    ELSE IF f = "malformed" THEN MalformedGraph(n, p[1], p[2], p[3])
    ELSE GeneralGraph(n, p[1], p[2][1], p[2][2], p[3])

-----------------------------------------------------------------------------
(* The component library of the instance.                                   *)

\* the keys of a library under construction
KeysOf(library) == {library[i].type : i \in DOMAIN library}

RECURSIVE ExtractTypesLastWins(_, _, _)
\* a faulty indexing, against which C30 is tried: library[node_type] is assigned
\* for every typed node, so that the last node of a type is kept
ExtractTypesLastWins(doc, i, acc) ==
    LET addr == Len(acc.heap.node) + 1
        bound == IF doc[i] \in KeysOf(acc.library)
                 THEN [k \in DOMAIN acc.library |->
                          IF acc.library[k].type = doc[i]
                          THEN [type |-> doc[i], addr |-> addr] ELSE acc.library[k]]
                 ELSE Append(acc.library, [type |-> doc[i], addr |-> addr])
    IN  IF i > Len(doc) THEN acc
        ELSE ExtractTypesLastWins(doc, i + 1,
                 IF doc[i] # ""
                 THEN [library |-> bound, heap |-> NewTemplate(acc.heap, i, doc[i])]
                 ELSE acc)

RECURSIVE ExtractTypes(_, _, _)
\* lines 207-212: acc = [library, heap]; a deep copy of the first node of each
\* type is kept; a node without a type ("") is not indexed
ExtractTypes(doc, i, acc) ==
    IF i > Len(doc) THEN acc
    ELSE ExtractTypes(doc, i + 1,
             IF doc[i] # "" /\ doc[i] \notin KeysOf(acc.library)
             THEN [library |-> Append(acc.library,
                                  [type |-> doc[i], addr |-> Len(acc.heap.node) + 1]),
                   heap |-> NewTemplate(acc.heap, i, doc[i])]
             ELSE acc)

\* lines 214-226: a template that is absent is loaded from its own file, when
\* that file can be read
LoadSideTemplate(acc, t, side) ==
    IF t \notin KeysOf(acc.library) /\ t \in side
    THEN [library |-> Append(acc.library, [type |-> t, addr |-> Len(acc.heap.node) + 1]),
          heap |-> NewTemplate(acc.heap, 0, t)]
    ELSE acc

\* _extract_component_templates: [library, heap]; side says which of the two side
\* templates (ConditionalRouter, OpenAIModel) can be loaded from their own files
ExtractComponentTemplates(doc, side) ==
    LoadSideTemplate(
        LoadSideTemplate(ExtractTypes(doc, 1, [library |-> <<>>, heap |-> EmptyHeap]),
                         "ConditionalRouter", side),
        "OpenAIModel", side)

\* VAPIToLangflowUnified._extract_component_templates: without an OpenAIModel the
\* key OpenAIModel is bound to the Agent template itself
UnifiedExtractComponentTemplates(doc) ==
    LET acc == ExtractTypes(doc, 1, [library |-> <<>>, heap |-> EmptyHeap])
    IN  IF "OpenAIModel" \notin KeysOf(acc.library) /\ "Agent" \in KeysOf(acc.library)
        THEN [acc EXCEPT !.library =
                 Append(acc.library,
                        [type |-> "OpenAIModel",
                         addr |-> acc.library[CHOOSE i \in DOMAIN acc.library :
                                                  acc.library[i].type = "Agent"].addr])]
        ELSE acc

\* reference documents that hold every template the converter uses
FullTemplateDocs ==
    {<<"ChatInput", "Agent", "ChatOutput">>,
     <<"Prompt", "ChatInput", "", "Agent", "ChatInput", "ChatOutput", "Agent">>}

TemplateTypes == <<"Prompt", "ChatInput", "Agent", "ChatOutput">>

\* reference documents that hold any part of the templates, in the order above
PartialTemplateDocs ==
    {SelectSeq(TemplateTypes, LAMBDA t : t \in S) : S \in SUBSET Range(TemplateTypes)}

-----------------------------------------------------------------------------
(* UnifiedAgentBuilder.build_system_prompt.  The document is the list of items
   the function joins with newlines; an item is a record of its kind and of the
   values formatted into it. *)

HEADER_ITEMS == 9
FOOTER_ITEMS == 5

Header == [i \in 1..HEADER_ITEMS |-> [kind |-> "header", n |-> i]]
Footer == [i \in 1..FOOTER_ITEMS |-> [kind |-> "footer", n |-> i]]

\* a node of the workflow as the builder reads it: firstMessage "" when there is
\* no message plan or no first message, prompt "" when there is none; plan says
\* whether the node has a variableExtractionPlan, and gives its outputs
NoPlan == [given |-> FALSE, output |-> <<>>]
Plan(output) == [given |-> TRUE, output |-> output]
PromptNode(name, isStart, firstMessage, prompt, plan) ==
    [name |-> name, isStart |-> isStart, firstMessage |-> firstMessage,
     prompt |-> prompt, plan |-> plan]

\* lines 47-60: the variable block of a plan
VariableBlock(plan) ==
    <<[kind |-> "variables"]>>
    \o [i \in 1..Len(plan.output) |->
           [kind |-> "variable", title |-> plan.output[i].title,
            description |-> plan.output[i].description, options |-> plan.output[i].enum]]

\* edge.get('condition', {}).get('prompt', 'Default/Always'); cond 0: no condition
CondDesc(edge) == IF edge.cond = 0 THEN <<"Default/Always", 0>> ELSE <<"prompt", edge.cond>>

\* lines 62-72: the transitions of the node named node_name
TransitionsBlock(ve, node_name) ==
    LET outgoing_edges == SelectSeq(ve, LAMBDA e : e.from = node_name)
    IN  IF Len(outgoing_edges) > 0
        THEN <<[kind |-> "transitions"]>>
             \o [i \in 1..Len(outgoing_edges) |->
                    [kind |-> "transition", cond |-> CondDesc(outgoing_edges[i]),
                     to |-> outgoing_edges[i].to]]
        ELSE <<[kind |-> "transitions_end"]>>

\* lines 33-72 with the starting message rendered for every node that has one
NodeSectionAnyStart(node, ve) ==
    <<[kind |-> "node", name |-> node.name]>>
    \o (IF node.firstMessage # ""
        THEN <<[kind |-> "starting_message", text |-> node.firstMessage]>> ELSE <<>>)
    \o (IF node.prompt # ""
        THEN <<[kind |-> "instruction", text |-> node.prompt]>> ELSE <<>>)
    \o (IF node.plan.given THEN VariableBlock(node.plan) ELSE <<>>)
    \o TransitionsBlock(ve, node.name)

\* lines 33-72: the section of one node
NodeSection(node, ve) ==
    <<[kind |-> "node", name |-> node.name]>>
    \o (IF node.isStart /\ node.firstMessage # ""
        THEN <<[kind |-> "starting_message", text |-> node.firstMessage]>> ELSE <<>>)
    \o (IF node.prompt # ""
        THEN <<[kind |-> "instruction", text |-> node.prompt]>> ELSE <<>>)
    \o (IF node.plan.given THEN VariableBlock(node.plan) ELSE <<>>)
    \o TransitionsBlock(ve, node.name)

RECURSIVE NodeSections(_, _, _)
\* lines 32-72: the sections of the nodes from the i-th on
NodeSections(vn, ve, i) ==
    IF i > Len(vn) THEN <<>>
    ELSE NodeSection(vn[i], ve) \o NodeSections(vn, ve, i + 1)

\* build_system_prompt: the items of the document
BuildSystemPrompt(vn, ve) == Header \o NodeSections(vn, ve, 1) \o Footer

\* the variable-extraction plans of the inputs: none, a plan without outputs, and
\* a plan of one variable and one variable with options
PromptPlans ==
    {NoPlan,
     Plan(<<>>),
     Plan(<<[title |-> "v1", description |-> "d1", enum |-> <<>>],
            [title |-> "v2", description |-> "d2", enum |-> <<"a", "b">>]>>)}

\* the workflows given to the builder: n nodes, node 2 named as node 1 when dup,
\* any marking, first message, prompt and plan; edges between their names or to an
\* undeclared one, with a condition text (the edge's index) or none
PromptNames(n, dup) == [i \in 1..n |-> IF dup THEN Pool[1] ELSE Pool[i]]

PromptNodeLists(n, dup) ==
    {[i \in 1..n |-> PromptNode(PromptNames(n, dup)[i], a[i][1], a[i][2], a[i][3], a[i][4])] :
        a \in [1..n -> BOOLEAN \X {"", "hello"} \X {"", "greet"} \X PromptPlans]}

PromptEdgeLists(n) ==
    {[i \in 1..Len(el) |->
         VapiEdge(Pool[el[i][1]], LooseName(n, el[i][2]), IF el[i][3] THEN i ELSE 0)] :
        el \in UNION {[1..len -> (1..n) \X (1..(n + 1)) \X BOOLEAN] :
                          len \in 0..MaxPromptEdges}}

-----------------------------------------------------------------------------
(* The state machine.                                                       *)

NoRouting == [set |-> FALSE, items |-> <<>>]

\* the attributes and the call record of an instance before any convert()
Started(f, mc) ==
    /\ held = <<>>
    /\ routing_components = NoRouting
    /\ uuid_seq = 0
    /\ calls = 0
    /\ repeats = 0
    /\ max_calls = mc
    /\ family = f
    /\ vapi_nodes = <<>>
    /\ vapi_edges = <<>>
    /\ status = "idle"
    /\ nodes = <<>>
    /\ edges = <<>>
    /\ id_map = EmptyMap
    /\ chat_input_id = NoneId
    /\ chat_output_id = NoneId
    /\ start_node_name = NoneName
    /\ first_level_set = {}
    /\ system_prompt = <<>>

\* VAPIToLangflowRealNode(...): the instance after __init__
Instance(doc, side, f, mc) ==
    /\ converter = "RealNode"
    /\ template_flow = doc
    /\ \E E \in {ExtractComponentTemplates(doc, side)} :
           component_library = E.library /\ heap = E.heap
    /\ Started(f, mc)

\* the instance after __init__, in a run in which uuid4 never repeats a value
Fresh(doc, side, f, mc) ==
    /\ Instance(doc, side, f, mc)
    /\ uuid_hex = <<>>

\* VAPIToLangflowUnified(...): the instance after __init__
FreshUnified(doc, f) ==
    /\ converter = "Unified"
    /\ uuid_hex = <<>>
    /\ template_flow = doc
    /\ \E E \in {UnifiedExtractComponentTemplates(doc)} :
           component_library = E.library /\ heap = E.heap
    /\ Started(f, 0)

\* one conversion per instance, of a graph of the general or of the tree family
Init == \E doc \in FullTemplateDocs, f \in {"general", "tree"} :
            Fresh(doc, {"ConditionalRouter", "OpenAIModel"}, f, 1)

\* several conversions on one instance, of graphs of the reuse family
InitReuse == \E doc \in FullTemplateDocs :
                 Fresh(doc, {"ConditionalRouter", "OpenAIModel"}, "reuse", MaxCalls)

\* one conversion per instance, of a graph of the loose or of the tree family
InitLoose == \E doc \in FullTemplateDocs, f \in {"loose", "tree"} :
                 Fresh(doc, {"ConditionalRouter", "OpenAIModel"}, f, 1)

\* one conversion per instance, with any part of the templates in the library
InitPartial == \E doc \in PartialTemplateDocs,
                  side \in SUBSET {"ConditionalRouter", "OpenAIModel"} :
                   Fresh(doc, side, "small", 1)

\* one conversion per instance, of a graph in which nodes may lack a name
InitMalformed == \E doc \in FullTemplateDocs :
                     Fresh(doc, {"ConditionalRouter", "OpenAIModel"}, "malformed", 1)

\* one conversion per instance, of a graph of the wide family
InitWide == \E doc \in FullTemplateDocs :
                Fresh(doc, {"ConditionalRouter", "OpenAIModel"}, "wide", 1)

\* reference documents of the consolidating converter: the full ones, and one
\* whose only model is neither an Agent nor an OpenAIModel
UnifiedTemplateDocs == FullTemplateDocs \cup {<<"ChatInput", "AnthropicModel", "ChatOutput">>}

\* an instance of either class whose library is cloned, without a conversion
InitClone ==
    \/ \E doc \in FullTemplateDocs :
           Fresh(doc, {"ConditionalRouter", "OpenAIModel"}, "none", 0)
    \/ \E doc \in UnifiedTemplateDocs : FreshUnified(doc, "none")

\* one conversion per instance, of a graph of the reuse family, for every outcome
\* of the first MaxDraws calls of uuid4 among MaxHex values
InitCollide == \E doc \in FullTemplateDocs, hex \in [1..MaxDraws -> 1..MaxHex] :
                   /\ Instance(doc, {"ConditionalRouter", "OpenAIModel"}, "reuse", 1)
                   /\ uuid_hex = hex

\* an instance of the consolidating converter, before any call
InitPrompt == FreshUnified(<<"ChatInput", "Agent", "ChatOutput">>, "prompt")

\* the reference documents of up to MaxDocLen nodes, typed or not
AnyTemplateDocs ==
    UNION {[1..n -> {"", "ChatInput", "Agent", "ChatOutput"}] : n \in 0..MaxDocLen}

\* an instance of either class built on any reference document, the side
\* templates of the RealNode class being readable
InitLibrary ==
    \E doc \in AnyTemplateDocs :
        \/ Fresh(doc, {"ConditionalRouter", "OpenAIModel"}, "none", 0)
        \/ FreshUnified(doc, "none")

\* convert() on vn, ve: the instance and the result after it returned or raised
Run(vn, ve) ==
    \E B \in {ConvertBody(vn, ve, uuid_seq, routing_components)} :
        \E order \in Perms(TerminalNodes(B, ve)) :
            \E R \in {ConnectChatOutput(B, ve, order)} :
                /\ routing_components' = R.rc
                /\ uuid_seq' = R.seq
                /\ vapi_nodes' = vn
                /\ vapi_edges' = ve
                /\ status' = IF R.ok THEN "ok" ELSE "error"
                /\ nodes' = IF R.ok THEN R.nodes ELSE <<>>
                /\ edges' = IF R.ok THEN R.edges ELSE <<>>
                /\ id_map' = IF R.ok THEN R.id_map ELSE EmptyMap
                /\ chat_input_id' = IF R.ok THEN R.chat_input_id ELSE NoneId
                /\ chat_output_id' = IF R.ok THEN R.chat_output_id ELSE NoneId
                /\ start_node_name' = IF R.ok THEN R.start_node_name ELSE NoneName
                /\ first_level_set' = IF R.ok THEN R.first_level_set ELSE {}

\* converter.convert(path) on a new input
Convert ==
    /\ converter = "RealNode"
    /\ calls < max_calls
    /\ \E n \in Sizes(family) : \E p \in Shapes(family, n) :
           \E G \in {InputGraph(family, n, p)} : Run(G.nodes, G.edges)
    /\ calls' = calls + 1
    /\ repeats' = 0
    /\ UNCHANGED <<converter, uuid_hex, system_prompt, template_flow, component_library, heap, held, max_calls, family>>

\* converter.convert(path) once more on the input of the last call
ConvertAgain ==
    /\ status # "idle"
    /\ repeats < MaxRepeats
    /\ Run(vapi_nodes, vapi_edges)
    /\ repeats' = repeats + 1
    /\ UNCHANGED <<converter, uuid_hex, system_prompt, template_flow, component_library, heap, held, calls, max_calls, family>>

\* main(), next process: VAPIToLangflowRealNode(...) builds a new instance
Construct ==
    /\ status # "idle"
    /\ routing_components' = NoRouting
    /\ uuid_seq' = 0
    /\ calls' = 0
    /\ repeats' = 0
    /\ vapi_nodes' = <<>>
    /\ vapi_edges' = <<>>
    /\ status' = "idle"
    /\ nodes' = <<>>
    /\ edges' = <<>>
    /\ id_map' = EmptyMap
    /\ chat_input_id' = NoneId
    /\ chat_output_id' = NoneId
    /\ start_node_name' = NoneName
    /\ first_level_set' = {}
    /\ UNCHANGED <<converter, uuid_hex, system_prompt, template_flow, component_library, heap, held, max_calls, family>>

Next == Convert \/ ConvertAgain \/ Construct

\* the variables of the conversions
conversion_vars == <<routing_components, calls, repeats, max_calls, family, vapi_nodes,
                     vapi_edges, status, nodes, edges, id_map, chat_input_id,
                     chat_output_id, start_node_name, first_level_set>>

\* the component types a caller asks _clone_component for
CloneRequests == {"ChatInput", "Agent", "OpenAIModel", "ChatOutput", "ConditionalRouter",
                  "Prompt"}

\* self._clone_component(t) returns; a call that raises leaves everything as it is
Clone ==
    /\ Len(held) < MaxClones
    /\ \E t \in CloneRequests :
           \E c \in {IF converter = "Unified" THEN UnifiedCloneObject(heap, t, uuid_seq)
                     ELSE CloneObject(heap, t, uuid_seq)} :
               /\ c.ok
               /\ heap' = c.heap
               /\ held' = Append(held, c.addr)
               /\ uuid_seq' = c.seq
    /\ UNCHANGED <<converter, uuid_hex, system_prompt, template_flow, component_library, conversion_vars>>

\* what the converters write through a clone they hold.
\* lines 283, 322, 828-839, 1183: node['position'] = {...}
SetPosition ==
    /\ \E a \in Range(held) : heap' = [heap EXCEPT !.node[a].position = Converted]
    /\ UNCHANGED <<converter, uuid_hex, system_prompt, template_flow, component_library, held, uuid_seq, conversion_vars>>

\* lines 797-802, 1170-1175: template['system_message']['value'] = prompt
SetPrompt ==
    /\ \E a \in Range(held) :
           heap' = [heap EXCEPT !.data[heap.node[a].data].system_message = Converted]
    /\ UNCHANGED <<converter, uuid_hex, system_prompt, template_flow, component_library, held, uuid_seq, conversion_vars>>

\* lines 805-806, 1178-1179: template['api_key']['value'] = self.openai_api_key
SetApiKey ==
    /\ \E a \in Range(held) :
           heap' = [heap EXCEPT !.data[heap.node[a].data].api_key = Converted]
    /\ UNCHANGED <<converter, uuid_hex, system_prompt, template_flow, component_library, held, uuid_seq, conversion_vars>>

\* lines 1186, 1222: router['data']['node']['display_name'] = ...
SetDisplayName ==
    /\ \E a \in Range(held) :
           heap' = [heap EXCEPT !.data[heap.node[a].data].display_name = Converted]
    /\ UNCHANGED <<converter, uuid_hex, system_prompt, template_flow, component_library, held, uuid_seq, conversion_vars>>

\* lines 100-102 of the consolidating converter: UnifiedAgentBuilder(vapi_data)
\* and builder.build_system_prompt() on a workflow whose nodes all have a name
BuildPrompt ==
    /\ converter = "Unified"
    /\ family = "prompt"
    /\ status = "idle"
    /\ \E n \in 0..MaxPromptNodes, dup \in BOOLEAN :
           \E vn \in PromptNodeLists(n, dup), ve \in PromptEdgeLists(n) :
               /\ vapi_nodes' = vn
               /\ vapi_edges' = ve
               /\ system_prompt' = BuildSystemPrompt(vn, ve)
    /\ status' = "ok"
    /\ UNCHANGED <<converter, uuid_hex, template_flow, component_library, heap, held,
                   routing_components, uuid_seq, calls, repeats, max_calls, family,
                   nodes, edges, id_map, chat_input_id, chat_output_id,
                   start_node_name, first_level_set>>

NextPrompt == BuildPrompt

NextClone == Clone \/ SetPosition \/ SetPrompt \/ SetApiKey \/ SetDisplayName

Spec == Init /\ [][Next]_vars

SpecReuse == InitReuse /\ [][Next]_vars

SpecLoose == InitLoose /\ [][Next]_vars

SpecPartial == InitPartial /\ [][Next]_vars

SpecMalformed == InitMalformed /\ [][Next]_vars

SpecWide == InitWide /\ [][Next]_vars

SpecClone == InitClone /\ [][NextClone]_vars

SpecCollide == InitCollide /\ [][Next]_vars

SpecLibrary == InitLibrary /\ [][Clone]_vars

SpecPrompt == InitPrompt /\ [][NextPrompt]_vars

-----------------------------------------------------------------------------
(* The vocabulary of the properties: the notions of the specification, read  *)
(* off the source graph and the target graph of the last conversion.         *)

SourceNames == {vapi_nodes[i].name : i \in DOMAIN vapi_nodes}

MarkedStarts == {vapi_nodes[i].name : i \in {j \in DOMAIN vapi_nodes : vapi_nodes[j].isStart}}

\* the start node: the node marked isStart, the first declared node when none is
DesignatedStart ==
    IF MarkedStarts # {}
    THEN vapi_nodes[CHOOSE i \in DOMAIN vapi_nodes :
                        /\ vapi_nodes[i].isStart
                        /\ \A j \in 1..(i - 1) : ~vapi_nodes[j].isStart].name
    ELSE IF vapi_nodes # <<>> THEN vapi_nodes[1].name ELSE NoneName

HasIncoming(name) == \E i \in DOMAIN vapi_edges : vapi_edges[i].to = name

\* a source node with no incoming edge that is not the start node
Orphan(name) == ~HasIncoming(name) /\ name # DesignatedStart

NonOrphans == {name \in SourceNames : ~Orphan(name)}

\* the outgoing edges of a source node, as indices in declaration order
OutEdges(name) == {i \in DOMAIN vapi_edges : vapi_edges[i].from = name}

BranchPoints == {name \in SourceNames : Cardinality(OutEdges(name)) >= 2}

RECURSIVE WithinDepth(_)
\* the source names at BFS depth <= d from the start node
WithinDepth(d) ==
    IF d = 0 THEN {DesignatedStart} \cap SourceNames
    ELSE WithinDepth(d - 1)
         \cup {vapi_edges[i].to : i \in {j \in DOMAIN vapi_edges :
                                             vapi_edges[j].from \in WithinDepth(d - 1)}}

\* the branch points the routing compiler is to compile
EligibleBranchPoints == BranchPoints \cap WithinDepth(MAX_ROUTING_DEPTH)

NodeIds == {nodes[i].id : i \in DOMAIN nodes}

\* the decision agents and the decision gates of the target graph
DecisionAgents == {nodes[i].id : i \in {j \in DOMAIN nodes : nodes[j].conditions # <<>>}}
DecisionGates == {nodes[i].id : i \in {j \in DOMAIN nodes : nodes[j].operator = "contains"}}

HasEdge(source_id, target_id) ==
    \E i \in DOMAIN edges : edges[i].source = source_id /\ edges[i].target = target_id

HasPortEdge(source_id, output_name, target_id) ==
    \E i \in DOMAIN edges : /\ edges[i].source = source_id
                             /\ edges[i].name = output_name
                             /\ edges[i].target = target_id

-----------------------------------------------------------------------------
(* C1: the end-to-end scenario.                                             *)

ScenarioNodes == <<VapiNode("start", TRUE, "conversation"),
                   VapiNode("billing", FALSE, "conversation"),
                   VapiNode("support", FALSE, "conversation")>>
ScenarioEdges == <<VapiEdge("start", "billing", 1), VapiEdge("start", "support", 2)>>

\* C1: converting [start (isStart), billing, support] with start->billing and
\* start->support succeeds and yields entry adapter -> decision agent -> one gate,
\* the gate's true output to billing's node and its false output to support's
\* node, billing's and support's nodes wired to the exit adapter, and start's own
\* node present with no edge from the entry adapter and none to the exit adapter.
C1_EndToEndScenario ==
    (vapi_nodes = ScenarioNodes /\ vapi_edges = ScenarioEdges /\ status # "idle") =>
        /\ status = "ok"
        /\ \E r \in DecisionAgents, g \in DecisionGates :
               /\ DecisionAgents = {r}
               /\ DecisionGates = {g}
               /\ HasEdge(chat_input_id, r)
               /\ HasEdge(r, g)
               /\ HasPortEdge(g, "true_result", MapGet(id_map, "billing"))
               /\ HasPortEdge(g, "false_result", MapGet(id_map, "support"))
        /\ HasEdge(MapGet(id_map, "billing"), chat_output_id)
        /\ HasEdge(MapGet(id_map, "support"), chat_output_id)
        /\ MapGet(id_map, "start") \in NodeIds
        /\ ~HasEdge(chat_input_id, MapGet(id_map, "start"))
        /\ ~HasEdge(MapGet(id_map, "start"), chat_output_id)

-----------------------------------------------------------------------------
(* C2: following the compiled gates.                                        *)

\* the outgoing edges of a source node, in declaration order
OutSeq(name) == SelectSeq(vapi_edges, LAMBDA e : e.from = name)

\* the decision agents compiled for a branch point: their prompt numbers the
\* conditions of its outgoing edges from 1, in declaration order
DecisionAgentsOf(name) ==
    {nodes[i].id : i \in {j \in DOMAIN nodes :
        /\ nodes[j].conditions # <<>>
        /\ nodes[j].conditions = [k \in 1..Len(OutSeq(name)) |->
                                      <<Str(k), OutSeq(name)[k].cond>>]}}

\* the target node of the destination of the j-th outgoing edge
Dest(name, j) == MapGet(id_map, OutSeq(name)[j].to)

OutputChars == {"1", "2", "3", "4", "x"}

\* what a decision agent may answer
AgentOutputs == UNION {[1..n -> OutputChars] : n \in 0..MaxOutputLen}

Contains(text, pattern) ==
    \E k \in 0..(Len(text) - Len(pattern)) : SubSeq(text, k + 1, k + Len(pattern)) = pattern

NodeWithId(id) == nodes[CHOOSE i \in DOMAIN nodes : nodes[i].id = id]

\* the output port a gate sends the text to
GateOutput(gate, text) ==
    IF gate.operator = "contains" /\ Contains(text, gate.match_text)
    THEN "true_result" ELSE "false_result"

RECURSIVE Follow(_, _, _)
\* the nodes other than gates that the text reaches from the node id
Follow(id, text, fuel) ==
    IF id \notin DecisionGates THEN {id}
    ELSE IF fuel = 0 THEN {}
    ELSE UNION {Follow(edges[i].target, text, fuel - 1) :
                    i \in {j \in DOMAIN edges :
                              /\ edges[j].source = id
                              /\ edges[j].name = GateOutput(NodeWithId(id), text)}}

\* the nodes the output of a decision agent reaches through the gates
Reached(agent_id, text) ==
    UNION {Follow(edges[i].target, text, Len(nodes)) :
               i \in {j \in DOMAIN edges : edges[j].source = agent_id}}

FourWay == {name \in BranchPoints : Len(OutSeq(name)) = 4}

\* C2 as stated: from the decision agent of a 4-way branch point, the output "1"
\* reaches the destination of the first edge, "2" of the second, "3" of the third,
\* and any other output the destination of the fourth.
C2_CascadeAnyOther ==
    status = "ok" =>
        \A b \in FourWay : \A r \in DecisionAgentsOf(b) : \A o \in AgentOutputs :
            Reached(r, o) = {Dest(b, IF o = <<"1">> THEN 1
                                     ELSE IF o = <<"2">> THEN 2
                                     ELSE IF o = <<"3">> THEN 3 ELSE 4)}

\* C2 amended: from the decision agent of a 4-way branch point, an output that
\* contains "1" reaches the destination of the first edge; otherwise one that
\* contains "2" that of the second; otherwise one that contains "3" that of the
\* third; an output that contains none of them reaches that of the fourth.
C2_CascadeContains ==
    status = "ok" =>
        \A b \in FourWay : \A r \in DecisionAgentsOf(b) : \A o \in AgentOutputs :
            Reached(r, o) = {Dest(b, IF Contains(o, <<"1">>) THEN 1
                                     ELSE IF Contains(o, <<"2">>) THEN 2
                                     ELSE IF Contains(o, <<"3">>) THEN 3 ELSE 4)}

\* C2 witness: a 4-way branch point was compiled, its four destinations are
\* distinct nodes, and the output "3" reaches the third one
C2_Witness ==
    /\ status = "ok"
    /\ \E b \in FourWay : \E r \in DecisionAgentsOf(b) :
           /\ Cardinality({Dest(b, j) : j \in 1..4}) = 4
           /\ Cardinality(DecisionGates) = 3
           /\ Reached(r, <<"3">>) = {Dest(b, 3)}

-----------------------------------------------------------------------------
(* C3: depth filtering.                                                     *)

RECURSIVE GateDemand(_)
\* the gates a set of branch points asks for: width - 1 each
GateDemand(S) ==
    IF S = {} THEN 0
    ELSE LET b == CHOOSE x \in S : TRUE
         IN  (Len(OutSeq(b)) - 1) + GateDemand(S \ {b})

\* the direct target edges that stand for the source edge i
DirectEdgesOf(i) ==
    {j \in DOMAIN edges : /\ edges[j].source = MapGet(id_map, vapi_edges[i].from)
                          /\ edges[j].target = MapGet(id_map, vapi_edges[i].to)
                          /\ edges[j].vapiCondition = vapi_edges[i].cond}

\* C3: a branch point is compiled into a decision agent and gates if and only if
\* its BFS depth from the start node is at most 1; a branch point that is deeper
\* or unreachable gets no decision agent and no gate, and each of its outgoing
\* edges becomes one direct target edge (stated for the branch points that are
\* not orphans, whose nodes the assembler keeps).
C3_DepthFiltering ==
    status = "ok" =>
        /\ \A b \in EligibleBranchPoints : Cardinality(DecisionAgentsOf(b)) = 1
        /\ \A b \in (BranchPoints \ EligibleBranchPoints) \cap NonOrphans :
               /\ DecisionAgentsOf(b) = {}
               /\ \A i \in OutEdges(b) : Cardinality(DirectEdgesOf(i)) = 1
        /\ Cardinality(DecisionGates) = GateDemand(EligibleBranchPoints)

-----------------------------------------------------------------------------
(* C4, C5: orphan pruning and node-count accounting.                        *)

\* the target nodes that stand for source nodes: neither adapters nor routing nodes
SourceTargetNodes ==
    {i \in DOMAIN nodes :
        nodes[i].id \notin ({chat_input_id, chat_output_id} \cup DecisionAgents
                            \cup DecisionGates)}

\* the source nodes with no incoming edge that are not marked isStart
UnmarkedWithoutIncoming == {name \in SourceNames : ~HasIncoming(name) /\ name \notin MarkedStarts}

\* C4: a source node that has no incoming edge and is not marked isStart produces
\* no target node and has no entry in the id-map (stated for the source graphs
\* in which a node is marked isStart).
C4_OrphanPruning ==
    (status = "ok" /\ MarkedStarts # {}) =>
        /\ \A name \in UnmarkedWithoutIncoming : name \notin DOMAIN id_map
        /\ Cardinality(SourceTargetNodes)
               <= Cardinality(SourceNames \ UnmarkedWithoutIncoming)

\* C5: the output node list consists of exactly one entry adapter, exactly one
\* exit adapter, exactly one target node per non-orphan source node and, for each
\* routing-eligible branch point of width k, exactly one decision agent and k - 1
\* decision gates, and of nothing else.
C5_NodeCountAccounting ==
    status = "ok" =>
        /\ Cardinality({i \in DOMAIN nodes : nodes[i].id = chat_input_id}) = 1
        /\ Cardinality({i \in DOMAIN nodes : nodes[i].id = chat_output_id}) = 1
        /\ DOMAIN id_map = NonOrphans
        /\ Cardinality(SourceTargetNodes) = Cardinality(NonOrphans)
        /\ \A b \in EligibleBranchPoints : Cardinality(DecisionAgentsOf(b)) = 1
        /\ Cardinality(DecisionAgents) = Cardinality(EligibleBranchPoints)
        /\ Cardinality(DecisionGates) = GateDemand(EligibleBranchPoints)
        /\ Len(nodes) = 2 + Cardinality(NonOrphans) + Cardinality(EligibleBranchPoints)
                          + GateDemand(EligibleBranchPoints)

-----------------------------------------------------------------------------
(* C6: type compatibility of the target edges.                              *)

\* C6: every target edge names output types of its source node that are all in
\* the accepted-type set of the input port it names on its target node, the
\* ports being those the port registry resolves for the two nodes.
C6_TypeCompatibility ==
    \A i \in DOMAIN edges :
        /\ edges[i].output_types # <<>>
        /\ Range(edges[i].output_types) \subseteq Range(edges[i].inputTypes)
        /\ edges[i].output_types = IoInfo(edges[i].source).output_types
        /\ edges[i].fieldName = IoInfo(edges[i].target).input_name
        /\ edges[i].inputTypes = IoInfo(edges[i].target).input_types

\* C6 witness: one target graph with an entry edge, a direct edge, a gate edge,
\* an exit edge, and an edge into a node of a type the registry does not know
C6_Witness ==
    /\ status = "ok"
    /\ \E i \in DOMAIN edges : edges[i].source = chat_input_id
    /\ \E i \in DOMAIN edges : edges[i].vapiCondition # 0
    /\ \E i \in DOMAIN edges : edges[i].source \in DecisionGates
    /\ \E i \in DOMAIN edges : edges[i].target = chat_output_id
    /\ \E i \in DOMAIN edges : IoInfo(edges[i].target).type = "Component"

-----------------------------------------------------------------------------
(* C7, C8: target graphs up to the identities of their nodes.               *)

\* the position of the node with this id in a node list, 0 when there is none
PosIn(ns, id) ==
    IF \E i \in DOMAIN ns : ns[i].id = id
    THEN CHOOSE i \in DOMAIN ns : ns[i].id = id
    ELSE 0

\* the node list without identities: type and configuration of each node
CanonNodesOf(ns) ==
    [i \in DOMAIN ns |-> <<ns[i].id.type, ns[i].operator, ns[i].match_text, ns[i].conditions>>]

\* the edges between positions and ports
CanonEdgesOf(ns, es) ==
    {<<PosIn(ns, es[i].source), es[i].name, PosIn(ns, es[i].target), es[i].fieldName>> :
        i \in DOMAIN es}

CanonNodes == CanonNodesOf(nodes)
CanonEdges == CanonEdgesOf(nodes, edges)

\* C7: converting the same source graph once more, with the same template
\* library, ends the same way and yields an isomorphic target graph: the same
\* node types and configurations, and the same edges between corresponding
\* nodes and ports.
C7_Idempotence ==
    [][(repeats' = repeats + 1) =>
          /\ status' = status
          /\ CanonNodes' = CanonNodes
          /\ CanonEdges' = CanonEdges
          /\ Len(edges') = Len(edges)]_vars

\* C7 witness: a source graph with a compiled branch point and a direct edge was
\* converted a second time
C7_Witness ==
    /\ repeats = 1
    /\ status = "ok"
    /\ DecisionGates # {}
    /\ \E i \in DOMAIN edges : edges[i].vapiCondition # 0
    /\ \E i \in DOMAIN edges : edges[i].target = chat_output_id

\* C8: after any sequence of conversions on one instance, the last conversion
\* ends as the conversion of its source graph on a fresh instance ends, and with
\* an isomorphic target graph.
C8_NoStateAcrossRuns ==
    status # "idle" =>
        \E B \in {ConvertBody(vapi_nodes, vapi_edges, 0, NoRouting)} :
            \E order \in Perms(TerminalNodes(B, vapi_edges)) :
                \E R \in {ConnectChatOutput(B, vapi_edges, order)} :
                    /\ R.ok = (status = "ok")
                    /\ R.ok => /\ CanonNodesOf(R.nodes) = CanonNodes
                               /\ CanonEdgesOf(R.nodes, R.edges) = CanonEdges
                               /\ Len(R.edges) = Len(edges)

-----------------------------------------------------------------------------
(* C9, C10: the entry adapter and the start node.                           *)

EntryEdges == {i \in DOMAIN edges : edges[i].source = chat_input_id}

\* C9: exactly one edge leaves the entry adapter; it goes to the start node's
\* target node when the start node is not a routing-eligible branch point, and to
\* the start branch point's decision agent instead when it is, and then the
\* start node's target node is not connected to the exit adapter (stated for
\* the source graphs whose start node is the first declared node).
C9_EntryWiring ==
    (status = "ok" /\ vapi_nodes # <<>> /\ DesignatedStart = vapi_nodes[1].name) =>
        /\ Cardinality(EntryEdges) = 1
        /\ IF DesignatedStart \in EligibleBranchPoints
           THEN /\ \E r \in DecisionAgentsOf(DesignatedStart) : HasEdge(chat_input_id, r)
                /\ ~HasEdge(chat_input_id, MapGet(id_map, DesignatedStart))
                /\ ~HasEdge(MapGet(id_map, DesignatedStart), chat_output_id)
           ELSE HasEdge(chat_input_id, MapGet(id_map, DesignatedStart))

\* the indices of the non-orphan source nodes, in declaration order
NonOrphanIndices == {i \in DOMAIN vapi_nodes : vapi_nodes[i].name \in NonOrphans}

\* C10: every non-orphan source node yields exactly one target node, the target
\* nodes appear in declaration order, and the node marked isStart yields a target
\* node and an id-map entry even without an incoming edge and when it is not the
\* first declared node.
C10_StartAlwaysCreated ==
    status = "ok" =>
        /\ \A i \in NonOrphanIndices :
               /\ vapi_nodes[i].name \in DOMAIN id_map
               /\ Cardinality({k \in DOMAIN nodes :
                                  nodes[k].id = MapGet(id_map, vapi_nodes[i].name)}) = 1
        /\ \A i, j \in NonOrphanIndices :
               i < j => PosIn(nodes, MapGet(id_map, vapi_nodes[i].name))
                            < PosIn(nodes, MapGet(id_map, vapi_nodes[j].name))
        /\ \A m \in MarkedStarts :
               m \in DOMAIN id_map /\ MapGet(id_map, m) \in NodeIds

-----------------------------------------------------------------------------
(* C11: the exit adapter.                                                   *)

\* the target nodes that stand for source nodes
SourceDerived == Range(id_map) \cap NodeIds

\* the target edges that leave a node for a node other than the exit adapter
OutgoingTargetEdges(t) ==
    {i \in DOMAIN edges : edges[i].source = t /\ edges[i].target # chat_output_id}

ExitEdges(t) ==
    {i \in DOMAIN edges : edges[i].source = t /\ edges[i].target = chat_output_id}

\* reachable by the post-hoc check over the target edges: the start node's target
\* node, and every node a target edge enters
ReachableTarget(t) ==
    \/ t = MapGet(id_map, DesignatedStart)
    \/ \E i \in DOMAIN edges : edges[i].target = t

\* the start node's target node when a decision agent stands for the start node
Superseded(t) ==
    t = MapGet(id_map, DesignatedStart) /\ DecisionAgentsOf(DesignatedStart) # {}

\* C11: a source-derived target node that has no outgoing target edge, is
\* reachable and is not the start node superseded by a router has exactly one
\* edge to the exit adapter, also when its only outgoing source edges were
\* dropped; every other source-derived target node has no edge to the exit
\* adapter.
C11_ExitWiring ==
    status = "ok" =>
        \A t \in SourceDerived :
            Cardinality(ExitEdges(t)) =
                IF OutgoingTargetEdges(t) = {} /\ ReachableTarget(t) /\ ~Superseded(t)
                THEN 1 ELSE 0

-----------------------------------------------------------------------------
(* C12: suppressed and direct edges.                                        *)

\* the target edges between the target nodes of two source names that carry the
\* condition c as metadata (0: no metadata)
TargetEdgesBetween(from, to, c) ==
    {j \in DOMAIN edges : /\ edges[j].source = MapGet(id_map, from)
                          /\ edges[j].target = MapGet(id_map, to)
                          /\ edges[j].vapiCondition = c}

\* the source edges between two names that carry the condition c (0: none)
SourceEdgesBetween(from, to, c) ==
    {i \in DOMAIN vapi_edges : /\ vapi_edges[i].from = from
                               /\ vapi_edges[i].to = to
                               /\ vapi_edges[i].cond = c}

\* the source edges that leave a routing-eligible branch point
RoutedSourceEdges == {i \in DOMAIN vapi_edges : vapi_edges[i].from \in EligibleBranchPoints}

\* the other source edges whose endpoints both have target nodes
WirableSourceEdges ==
    {i \in DOMAIN vapi_edges : /\ vapi_edges[i].from \notin EligibleBranchPoints
                               /\ vapi_edges[i].from \in DOMAIN id_map
                               /\ vapi_edges[i].to \in DOMAIN id_map}

\* C12: no target edge leads from the target node of a routing-eligible branch
\* point to the destination of one of its source edges; every other source edge
\* whose endpoints both have target nodes has exactly one direct target edge
\* between them, which carries the edge's condition as metadata when it has one
\* and no metadata when it has none.
C12_EdgeSuppression ==
    status = "ok" =>
        /\ \A i \in RoutedSourceEdges :
               ~HasEdge(MapGet(id_map, vapi_edges[i].from), MapGet(id_map, vapi_edges[i].to))
        /\ \A i \in WirableSourceEdges :
               \A c \in {vapi_edges[k].cond : k \in DOMAIN vapi_edges} :
                   Cardinality(TargetEdgesBetween(vapi_edges[i].from, vapi_edges[i].to, c))
                       = Cardinality(SourceEdgesBetween(vapi_edges[i].from, vapi_edges[i].to, c))
        /\ \A i \in WirableSourceEdges : \A j \in DOMAIN edges :
               (/\ edges[j].source = MapGet(id_map, vapi_edges[i].from)
                /\ edges[j].target = MapGet(id_map, vapi_edges[i].to))
                   => \E k \in DOMAIN vapi_edges : edges[j].vapiCondition = vapi_edges[k].cond

\* C12 witness: a converted graph with a suppressed edge of a compiled branch
\* point whose endpoints both have target nodes, and a direct edge of a source
\* edge without a condition
C12_Witness ==
    /\ status = "ok"
    /\ \E i \in RoutedSourceEdges :
           /\ vapi_edges[i].from \in DOMAIN id_map
           /\ vapi_edges[i].to \in DOMAIN id_map
           /\ DecisionAgentsOf(vapi_edges[i].from) # {}
    /\ \E i \in WirableSourceEdges :
           /\ vapi_edges[i].cond = 0
           /\ TargetEdgesBetween(vapi_edges[i].from, vapi_edges[i].to, 0) # {}

-----------------------------------------------------------------------------
(* C13: templates absent from the library.                                  *)

\* the source nodes the node loop does not skip as orphans
KeptNames == {name \in SourceNames : ~IsOrphan(name, vapi_nodes, vapi_edges)}

\* a component type the conversion needs is absent and no fallback applies
NeededTemplateMissing ==
    \/ "ChatInput" \notin LibKeys
    \/ "ChatOutput" \notin LibKeys
    \/ KeptNames # {} /\ LibKeys = {}
    \/ /\ EligibleBranchPoints \cap KeptNames # {}
       /\ {"Agent", "ConditionalRouter"} \ LibKeys # {}

-----------------------------------------------------------------------------
(* C14: source edges that name a node without a target node.                *)

\* the source edges whose from or to names a node without a target node: an
\* undeclared name, or a node skipped as an orphan
DanglingEdges ==
    {i \in DOMAIN vapi_edges :
        vapi_edges[i].from \notin KeptNames \/ vapi_edges[i].to \notin KeptNames}

\* C14: when a source edge names a node that has no target node (undeclared, or
\* pruned), the conversion does not abort, no target edge stands for that edge,
\* and the target graph is complete: both adapters and a target node for every
\* source node that is not skipped as an orphan.
C14_UnknownNodeEdges ==
    (status # "idle" /\ DanglingEdges # {}) =>
        /\ status = "ok"
        /\ \A i \in DanglingEdges :
               /\ ~HasEdge(MapGet(id_map, vapi_edges[i].from), MapGet(id_map, vapi_edges[i].to))
               /\ vapi_edges[i].cond # 0 =>
                      \A j \in DOMAIN edges : edges[j].vapiCondition # vapi_edges[i].cond
        /\ chat_input_id \in NodeIds
        /\ chat_output_id \in NodeIds
        /\ \A name \in KeptNames : MapGet(id_map, name) \in NodeIds

-----------------------------------------------------------------------------
(* C15, C16: the shape of a compiled branch point.                          *)

\* the target edges that leave a node through one of its output ports
PortEdges(source_id, output_name) ==
    {i \in DOMAIN edges : edges[i].source = source_id /\ edges[i].name = output_name}

\* the gate chain g of the branch point b behind the decision agent r: the agent's
\* only edge enters g[1]; gate i tests the index i, its only true edge enters
\* the destination of the i-th edge of b, its only false edge enters gate i + 1,
\* and that of the last gate the destination of the last edge of b
IsGateChain(b, r, g) ==
    LET k == Len(OutSeq(b))
    IN  /\ \A i, j \in DOMAIN g : g[i] = g[j] => i = j
        /\ Cardinality({i \in DOMAIN edges : edges[i].source = r}) = 1
        /\ HasEdge(r, g[1])
        /\ \A i \in DOMAIN g :
               /\ NodeWithId(g[i]).match_text = Str(i)
               /\ Cardinality(PortEdges(g[i], "true_result")) = 1
               /\ HasPortEdge(g[i], "true_result", Dest(b, i))
               /\ Cardinality(PortEdges(g[i], "false_result")) = 1
               /\ HasPortEdge(g[i], "false_result",
                              IF i < Len(g) THEN g[i + 1] ELSE Dest(b, k))

\* the branch point b is compiled into one decision agent and a chain of n gates
CompiledInto(b, n) ==
    /\ Cardinality(DecisionAgentsOf(b)) = 1
    /\ \A r \in DecisionAgentsOf(b) : \E g \in [1..n -> DecisionGates] : IsGateChain(b, r, g)

Cascades == {b \in EligibleBranchPoints : Len(OutSeq(b)) >= 3}
TwoWay == {b \in EligibleBranchPoints : Len(OutSeq(b)) = 2}

\* C15: a routing-eligible branch point with k >= 3 outgoing edges is compiled
\* into a decision agent wired to the first of exactly k - 1 gates; gate i tests
\* the index i, its true output is wired to the destination of edge i and its
\* false output to gate i + 1, that of gate k - 1 to the destination of edge k;
\* no gate tests the index k, so every output of the decision agent reaches one
\* of the k destinations.
C15_CascadeStructure ==
    status # "idle" =>
        \A b \in Cascades :
            /\ status = "ok"
            /\ CompiledInto(b, Len(OutSeq(b)) - 1)
            /\ \A r \in DecisionAgentsOf(b) : \A o \in AgentOutputs : \A t \in Reached(r, o) :
                   \E i \in 1..Len(OutSeq(b)) : t = Dest(b, i)

\* C16: a routing-eligible branch point with exactly two outgoing edges is
\* compiled into a decision agent wired to exactly one gate, which tests the
\* index 1; the gate's true output is wired to the destination of the first
\* declared edge and its false output to the destination of the second.
C16_TwoWaySplit ==
    status # "idle" => \A b \in TwoWay : status = "ok" /\ CompiledInto(b, 1)

-----------------------------------------------------------------------------
(* C17: source nodes with a single outgoing edge.                           *)

SingleExit == {name \in SourceNames : Cardinality(OutEdges(name)) = 1}

\* C17: a source node with exactly one outgoing edge gets no decision agent and
\* no gate, whatever its depth: no decision agent lists fewer than two
\* conditions, and no edge leads from the node's target node to a decision agent
\* or a gate; when the node is not an orphan, its edge is wired as exactly one
\* direct target edge, the only target edge that leaves its target node for
\* another node than the exit adapter.
C17_SingleEdgeNeverRouted ==
    status = "ok" =>
        /\ \A i \in DOMAIN nodes : nodes[i].conditions # <<>> => Len(nodes[i].conditions) >= 2
        /\ \A name \in SingleExit :
               /\ DecisionAgentsOf(name) = {}
               /\ \A j \in DOMAIN edges :
                      edges[j].source = MapGet(id_map, name)
                          => edges[j].target \notin DecisionAgents \cup DecisionGates
        /\ \A name \in SingleExit \cap NonOrphans :
               \A i \in OutEdges(name) :
                   /\ Cardinality(DirectEdgesOf(i)) = 1
                   /\ OutgoingTargetEdges(MapGet(id_map, name)) = DirectEdgesOf(i)

-----------------------------------------------------------------------------
(* C18: the start node of each phase.                                       *)

\* C18: in one conversion every phase uses the same start node, the node marked
\* isStart or else the first declared node: the orphan exemption (line 293),
\* the root of the depth BFS (line 1055), the destination of the entry adapter's
\* edge (line 400), the start-node-router test (line 452), and the reachable
\* and exit-skip checks (lines 566, 583), which read the local start_node_name.
C18_OneStartNode ==
    (status # "idle" /\ vapi_nodes # <<>>) =>
        /\ FirstNodeName(vapi_nodes) = DesignatedStart
        /\ DepthStartName(vapi_nodes) = DesignatedStart
        /\ EntryStartName(vapi_nodes) = DesignatedStart
        /\ RoutingStartName(vapi_nodes) = DesignatedStart
        /\ status = "ok" => start_node_name = DesignatedStart

-----------------------------------------------------------------------------
(* C19: source nodes without a name.                                        *)

Unnamed == {i \in DOMAIN vapi_nodes : vapi_nodes[i].name = Missing}

\* the named source nodes the node loop does not skip as orphans
NamedKept == {name \in SourceNames \ {Missing} : ~IsOrphan(name, vapi_nodes, vapi_edges)}

\* C19: when source nodes lack their name, the conversion still returns a target
\* graph; a node without a name contributes no target node and no id-map entry,
\* so the source-derived target nodes are exactly those of the id-map; every
\* named node that is not skipped as an orphan is still converted.
C19_MalformedNode ==
    (status # "idle" /\ Unnamed # {}) =>
        /\ status = "ok"
        /\ DOMAIN id_map = NamedKept
        /\ {nodes[i].id : i \in SourceTargetNodes} = Range(id_map)
        /\ Cardinality(SourceTargetNodes) = Cardinality(NamedKept)

-----------------------------------------------------------------------------
(* C20: the target graph seen from the entry adapter.                       *)

RECURSIVE ReachableFrom(_)
\* the node ids that target edges reach from the ids in S, S included
ReachableFrom(S) ==
    LET N == S \cup {edges[i].target : i \in {j \in DOMAIN edges : edges[j].source \in S}}
    IN  IF N = S THEN S ELSE ReachableFrom(N)

\* C20: in a produced target graph every node other than the entry adapter is
\* reachable from the entry adapter along target edges; in particular no target
\* edge leaves a node that is not reachable from it.
C20_ConnectedFromEntry ==
    status = "ok" =>
        /\ NodeIds \ {chat_input_id} \subseteq ReachableFrom({chat_input_id})
        /\ \A i \in DOMAIN edges : edges[i].source \in ReachableFrom({chat_input_id})

-----------------------------------------------------------------------------
(* C21: the depth map.                                                      *)

RECURSIVE ReachableNames(_)
\* the names that paths of source edges reach from the names in S, S included
ReachableNames(S) ==
    LET N == S \cup {vapi_edges[i].to : i \in {j \in DOMAIN vapi_edges : vapi_edges[j].from \in S}}
    IN  IF N = S THEN S ELSE ReachableNames(N)

RECURSIVE ShortestFrom(_, _, _)
\* the least number of source edges on a path from the start node to each name
\* such a path reaches: the names of frontier are at distance d, those of seen
\* at distance <= d
ShortestFrom(seen, frontier, d) ==
    IF frontier = {} THEN [x \in {} |-> 0]
    ELSE LET next == {vapi_edges[i].to :
                         i \in {j \in DOMAIN vapi_edges : vapi_edges[j].from \in frontier}}
                     \ seen
         IN  [x \in frontier |-> d] @@ ShortestFrom(seen \cup next, next, d + 1)

\* the edges that close a cycle or a longer second path: they enter a name
\* that is at most as deep as the name they leave
BackEdges(depths) ==
    {i \in DOMAIN vapi_edges : /\ vapi_edges[i].from \in DOMAIN depths
                               /\ vapi_edges[i].to \in DOMAIN depths
                               /\ depths[vapi_edges[i].to] <= depths[vapi_edges[i].from]}

\* C21: the depth map of a source graph gives 0 to the start node and, to every
\* name a path of source edges reaches from the start node, the least number
\* of edges on such a path; a node that no path reaches has no entry; the map
\* of the empty graph is empty.  Cycles and self-loops do not change it.
C21_DepthsAreShortest ==
    status # "idle" =>
        \E depths \in {CalculateNodeDepths(vapi_nodes, vapi_edges)} :
            /\ vapi_nodes = <<>> => DOMAIN depths = {}
            /\ vapi_nodes # <<>> =>
                   /\ depths[DesignatedStart] = 0
                   /\ depths = ShortestFrom({DesignatedStart}, {DesignatedStart}, 0)
            /\ \A name \in SourceNames :
                   name \in DOMAIN depths
                       <=> name \in ReachableNames({DesignatedStart} \cap SourceNames)

\* C21 witness: the depth map of a graph in which an edge closes a cycle through
\* a node two edges away from the start node
C21_Witness ==
    /\ status # "idle"
    /\ \E depths \in {CalculateNodeDepths(vapi_nodes, vapi_edges)} :
           \E i \in BackEdges(depths) : depths[vapi_edges[i].from] = 2

-----------------------------------------------------------------------------
(* C22: decision numbers follow the declaration order.                      *)

\* the names that source edges leave
FromNames == {vapi_edges[i].from : i \in DOMAIN vapi_edges}

\* the index of the k-th declared source edge that leaves name
KthOut(name, k) ==
    CHOOSE i \in OutEdges(name) : Cardinality({j \in OutEdges(name) : j < i}) = k - 1

\* the branch points the conversion compiled: the entries of _routing_components
Routed == Range(routing_components.items)

\* C22: the branch-point map holds exactly the names that two or more source
\* edges leave, each once, with its edges in declaration order; and for every
\* compiled branch point of width k the decision agent's prompt lists the
\* condition of the i-th declared edge as number i (i in 1..k), and gate i (i in
\* 1..k-1) has the match text i and its true output wired to the destination of
\* the i-th declared edge, and to nothing else.
C22_DeclarationOrder ==
    status # "idle" =>
        /\ \E B \in {FindBranchingNodes(vapi_edges)} :
               /\ {B[i].name : i \in DOMAIN B}
                      = {name \in FromNames : Cardinality(OutEdges(name)) >= 2}
               /\ \A i, j \in DOMAIN B : B[i].name = B[j].name => i = j
               /\ \A i \in DOMAIN B :
                      /\ Len(B[i].edges) = Cardinality(OutEdges(B[i].name))
                      /\ \A k \in DOMAIN B[i].edges :
                             B[i].edges[k] = vapi_edges[KthOut(B[i].name, k)]
        /\ status = "ok" =>
               \A r \in Routed :
                   /\ Cardinality(OutEdges(r.source_name)) >= 2
                   /\ r.router_agent_id \in DecisionAgents
                   /\ NodeWithId(r.router_agent_id).conditions =
                          [i \in 1..Cardinality(OutEdges(r.source_name)) |->
                              <<Str(i), vapi_edges[KthOut(r.source_name, i)].cond>>]
                   /\ Len(r.router_ids) = RouterCount(Cardinality(OutEdges(r.source_name)))
                   /\ \A i \in DOMAIN r.router_ids :
                          /\ r.router_ids[i] \in DecisionGates
                          /\ NodeWithId(r.router_ids[i]).match_text = Str(i)
                          /\ \A e \in PortEdges(r.router_ids[i], "true_result") :
                                 edges[e].target =
                                     MapGet(id_map, vapi_edges[KthOut(r.source_name, i)].to)
                          /\ Cardinality(PortEdges(r.router_ids[i], "true_result")) =
                                 IF vapi_edges[KthOut(r.source_name, i)].to \in DOMAIN id_map
                                 THEN 1 ELSE 0

\* C22 witness: a compiled branch point whose edges are declared with an edge of
\* another node between them, and whose first gate is wired
C22_Witness ==
    /\ status = "ok"
    /\ \E r \in Routed :
           /\ KthOut(r.source_name, 2) > KthOut(r.source_name, 1) + 1
           /\ PortEdges(r.router_ids[1], "true_result") # {}

-----------------------------------------------------------------------------
(* C23: routing a decision number through the gates.                        *)

\* C23: for every routing-eligible branch point of width k, of any width, and
\* every i in 1..k, the decision-agent output that is exactly the decimal
\* numeral of i reaches, through the gates, the destination of the i-th
\* declared edge and nothing else.
C23_NumeralRouting ==
    status = "ok" =>
        \A b \in EligibleBranchPoints :
            /\ Cardinality(DecisionAgentsOf(b)) = 1
            /\ \A r \in DecisionAgentsOf(b) : \A i \in 1..Len(OutSeq(b)) :
                   Reached(r, Str(i)) = {Dest(b, i)}

-----------------------------------------------------------------------------
(* C24: clones and the library.                                             *)

\* the templates as the library holds them: per key, the node object and its
\* data object
LibraryContent ==
    [i \in DOMAIN component_library |->
        <<component_library[i].type,
          heap.node[component_library[i].addr],
          heap.data[heap.node[component_library[i].addr].data]>>]

\* the node objects and the data objects of the library
LibraryNodes == {component_library[i].addr : i \in DOMAIN component_library}
LibraryData == {heap.node[a].data : a \in LibraryNodes}

\* the clone a is an object of its own, down to its data, and carries one
\* generated id, on the node and on its data
IsOwnObject(a) ==
    /\ a \notin LibraryNodes
    /\ heap.node[a].data \notin LibraryData
    /\ \A b \in DOMAIN heap.node : b # a => heap.node[b].data # heap.node[a].data
    /\ heap.data[heap.node[a].data].id = heap.node[a].id
    /\ heap.node[a].id.n > 0

\* the clone a is as the template of the key it was made of, but for the ids
FromOriginal(a) ==
    LET t == heap.node[TemplateAddr(heap.node[a].id.type)]
    IN  /\ [heap.node[a] EXCEPT !.id = t.id, !.data = t.data] = t
        /\ [heap.data[heap.node[a].data] EXCEPT !.id = heap.data[t.data].id] = heap.data[t.data]

\* the clone returned last is as its template, but for the ids
LastCloneFromOriginal == held # <<>> => FromOriginal(held[Len(held)])

\* every clone returned so far is an object of its own
ClonesOwnObjects == \A a \in Range(held) : IsOwnObject(a)

\* no field of a library template has been written
LibraryUntouched ==
    \A i \in DOMAIN LibraryContent :
        /\ LibraryContent[i][2].position = Untouched
        /\ LibraryContent[i][3].system_message = Untouched
        /\ LibraryContent[i][3].api_key = Untouched
        /\ LibraryContent[i][3].display_name = Untouched

\* C24: a clone is a deep copy of the library template, with its top-level id and
\* its data id set to one new id; neither the clone nor any later write through
\* a clone (prompt, API key, position, display name) changes a library template,
\* so every clone starts from the template as the reference document has it.
C24_CloneIndependence ==
    [][/\ LibraryContent' = LibraryContent
       /\ ClonesOwnObjects'
       /\ LibraryUntouched'
       /\ Len(held') > Len(held) => LastCloneFromOriginal']_vars

\* C24 witness: two clones of one template, the first with its prompt, API key,
\* position and display name written, the second as the template has them
C24_Witness ==
    /\ Len(held) = 2
    /\ heap.node[held[1]].id.type = heap.node[held[2]].id.type
    /\ heap.node[held[1]].position = Converted
    /\ heap.data[heap.node[held[1]].data].system_message = Converted
    /\ heap.data[heap.node[held[1]].data].api_key = Converted
    /\ heap.data[heap.node[held[1]].data].display_name = Converted
    /\ FromOriginal(held[2])

-----------------------------------------------------------------------------
(* C25: unique target identities. *)

\* any two distinct nodes of the produced graph have distinct ids
UniqueIds == \A i, j \in DOMAIN nodes : i # j => nodes[i].id # nodes[j].id

\* C25: in every produced target graph any two distinct nodes have distinct
\* ids, whatever values the identity generator yields
C25_UniqueIds == status = "ok" => UniqueIds

\* the values uuid4 has yielded so far are pairwise distinct
DistinctDraws == \A i, j \in 1..uuid_seq : i # j => Hex(i) # Hex(j)

\* C25, where the generator has not repeated a value: the ids of a produced
\* graph are distinct
C25_UniqueWhenDistinct == (status = "ok" /\ DistinctDraws) => UniqueIds

\* C25: a graph is produced after the generator has yielded distinct values
C25_DistinctReached == status = "ok" /\ DistinctDraws /\ Len(nodes) > 3

-----------------------------------------------------------------------------
(* C26: the structure of the consolidated document. *)

\* the positions of the node headings of the document, in order
Headings == SelectSeq([i \in 1..Len(system_prompt) |-> i],
                      LAMBDA i : system_prompt[i].kind = "node")

\* the section of the k-th heading: from it up to the next heading or the footer
SectionOf(k) ==
    SubSeq(system_prompt, Headings[k],
           IF k < Len(Headings) THEN Headings[k + 1] - 1
           ELSE Len(system_prompt) - FOOTER_ITEMS)

KindsOf(sec) == [i \in 1..Len(sec) |-> sec[i].kind]

Count(sec, kind) == Cardinality({i \in 1..Len(sec) : sec[i].kind = kind})

\* the place of a kind of item within a section
Rank(kind) == CASE kind = "node" -> 1
                [] kind = "starting_message" -> 2
                [] kind = "instruction" -> 3
                [] kind = "variables" -> 4
                [] kind = "variable" -> 5
                [] kind = "transitions" -> 6
                [] kind = "transition" -> 7
                [] kind = "transitions_end" -> 7
                [] OTHER -> 0

\* name, starting message, instruction, variable block, transitions, in this
\* order, each at most once, and exactly one transitions block, at the end
SectionInOrder(sec) ==
    /\ \A i \in 1..(Len(sec) - 1) :
           \/ Rank(sec[i].kind) < Rank(sec[i + 1].kind)
           \/ sec[i].kind = sec[i + 1].kind /\ sec[i].kind \in {"variable", "transition"}
    /\ \A i \in 1..Len(sec) : Rank(sec[i].kind) > 0
    /\ Count(sec, "variable") > 0 => Count(sec, "variables") = 1
    /\ Count(sec, "transitions") + Count(sec, "transitions_end") = 1
    /\ Count(sec, "transitions") = 1 <=> Count(sec, "transition") > 0
    /\ sec[Len(sec)].kind \in {"transition", "transitions_end"}

\* the outgoing edges of the node named name, in declaration order
OutgoingOf(name) == SelectSeq(vapi_edges, LAMBDA e : e.from = name)

\* the transition lines of a section, in order
TransitionLines(sec) == SelectSeq(sec, LAMBDA it : it.kind = "transition")

\* the section sec renders the node: what is optional is there only under its
\* condition, and the transitions are the node's outgoing edges, in order
SectionRenders(sec, node) ==
    /\ sec[1] = [kind |-> "node", name |-> node.name]
    /\ Count(sec, "starting_message") = 1 => node.isStart /\ node.firstMessage # ""
    /\ Count(sec, "instruction") = 1 => node.prompt # ""
    /\ Count(sec, "variables") = 1 => node.plan.given
    /\ Len(TransitionLines(sec)) = Len(OutgoingOf(node.name))
    /\ \A i \in 1..Len(OutgoingOf(node.name)) :
           /\ TransitionLines(sec)[i].to = OutgoingOf(node.name)[i].to
           /\ TransitionLines(sec)[i].cond[2] = OutgoingOf(node.name)[i].cond
    /\ Count(sec, "transitions_end") = 1 <=> Len(OutgoingOf(node.name)) = 0

\* C26: the document is the header, one section per source node in declaration
\* order, and the footer; a section is ordered name, starting message,
\* instruction, variable block, transitions; the starting message is there only
\* for a node marked isStart that has a first message, the instruction only for
\* a non-empty prompt, the variable block only for a node with a plan; a section
\* ends with exactly one transitions block, one line per outgoing edge in
\* declaration order, or the end-of-conversation line when there is none
C26_DocumentStructure ==
    (converter = "Unified" /\ status = "ok") =>
        /\ SubSeq(system_prompt, 1, HEADER_ITEMS) = Header
        /\ SubSeq(system_prompt, Len(system_prompt) - FOOTER_ITEMS + 1,
                  Len(system_prompt)) = Footer
        /\ \A i \in (HEADER_ITEMS + 1)..(Len(system_prompt) - FOOTER_ITEMS) :
               system_prompt[i].kind \notin {"header", "footer"}
        /\ Len(Headings) = Len(vapi_nodes)
        /\ Len(vapi_nodes) > 0 => Headings[1] = HEADER_ITEMS + 1
        /\ Len(vapi_nodes) = 0 => Len(system_prompt) = HEADER_ITEMS + FOOTER_ITEMS
        /\ \A k \in 1..Len(vapi_nodes) :
               /\ SectionInOrder(SectionOf(k))
               /\ SectionRenders(SectionOf(k), vapi_nodes[k])

\* C26: a document of two sections: a start node with a first message, a prompt,
\* a plan and two outgoing edges, one of them without a condition, and a node
\* with a first message that is not the start node and has no outgoing edge
C26_Witness ==
    /\ converter = "Unified"
    /\ status = "ok"
    /\ Len(vapi_nodes) = 2
    /\ vapi_nodes[1].isStart /\ vapi_nodes[1].firstMessage # ""
    /\ vapi_nodes[1].prompt # "" /\ Len(vapi_nodes[1].plan.output) = 2
    /\ Len(OutgoingOf(vapi_nodes[1].name)) = 2
    /\ \E i \in 1..2 : OutgoingOf(vapi_nodes[1].name)[i].cond = 0
    /\ ~vapi_nodes[2].isStart /\ vapi_nodes[2].firstMessage # ""
    /\ Len(OutgoingOf(vapi_nodes[2].name)) = 0
    /\ KindsOf(SectionOf(1)) = <<"node", "starting_message", "instruction", "variables",
                                 "variable", "variable", "transitions", "transition",
                                 "transition">>
    /\ KindsOf(SectionOf(2)) = <<"node", "transitions_end">>

-----------------------------------------------------------------------------
(* C27: conversion when the start node is terminal. *)

\* the last call converted, on a fresh instance, a graph with one node marked
\* isStart, and that node has no outgoing edge
TerminalStartCase ==
    /\ status # "idle"
    /\ calls = 1
    /\ repeats = 0
    /\ Cardinality(MarkedStarts) = 1
    /\ Cardinality({i \in DOMAIN vapi_nodes : vapi_nodes[i].isStart}) = 1
    /\ \A i \in DOMAIN vapi_edges : vapi_edges[i].from \notin MarkedStarts

\* entry adapter -> the start node's target node -> exit adapter
StartWiredThrough ==
    \E s \in MarkedStarts :
        /\ MapGet(id_map, s) \in NodeIds
        /\ HasEdge(chat_input_id, MapGet(id_map, s))
        /\ HasEdge(MapGet(id_map, s), chat_output_id)

\* C27: for a well-formed source graph whose start node has no outgoing edge,
\* converting on a fresh instance with a complete template library completes
\* without error and yields entry adapter -> start's target node -> exit adapter
C27_TerminalStartCompletes == TerminalStartCase => (status = "ok" /\ StartWiredThrough)

\* C27, where the start node is declared first: the conversion raises
C27_RaisesWhenDeclaredFirst ==
    (TerminalStartCase /\ vapi_nodes[1].isStart) => status = "error"

-----------------------------------------------------------------------------
(* C28: referential integrity of the target edges. *)

\* both endpoints of every edge are ids of nodes of the output node list
EndpointsPresent ==
    \A i \in DOMAIN edges : edges[i].source \in NodeIds /\ edges[i].target \in NodeIds

\* C28: in every produced target graph the source id and the target id of every
\* edge are ids of nodes present in the output node list
C28_ReferentialIntegrity == status = "ok" => EndpointsPresent

\* C28, for the first input an instance converts: the endpoints are present
C28_FirstInputIntegrity == (status = "ok" /\ calls = 1) => EndpointsPresent

-----------------------------------------------------------------------------
(* C29: the wiring of the routing sub-graphs. *)

\* the branch points this conversion compiled, as recorded by _insert_routing_logic
RoutedNow == {r \in Routed : /\ r.source_name \in first_level_set
                              /\ r.source_name \in DOMAIN id_map
                              /\ r.router_agent_id \in NodeIds}

EdgesInto(id) == {i \in DOMAIN edges : edges[i].target = id}
EdgesOutOf(id) == {i \in DOMAIN edges : edges[i].source = id}
EdgesOutOfPort(id, output_name) == {i \in EdgesOutOf(id) : edges[i].name = output_name}

\* every outgoing edge of the branch point names a destination with a target node
DestinationsPresent(r) == \A i \in DOMAIN r.edges : r.edges[i].to \in DOMAIN id_map

\* one edge into the decision agent, one out of it, to the first gate; one edge
\* on each output of each gate
SubGraphWired(r) ==
    /\ Cardinality(EdgesInto(r.router_agent_id)) = 1
    /\ Cardinality(EdgesOutOf(r.router_agent_id)) = 1
    /\ \A i \in EdgesOutOf(r.router_agent_id) : edges[i].target = r.router_ids[1]
    /\ \A k \in DOMAIN r.router_ids :
           /\ Cardinality(EdgesOutOfPort(r.router_ids[k], "true_result")) = 1
           /\ Cardinality(EdgesOutOfPort(r.router_ids[k], "false_result")) = 1

\* the branch point's own node has one outgoing edge, to its decision agent
SourceFeedsAgent(r) ==
    /\ Cardinality(EdgesOutOf(id_map[r.source_name])) = 1
    /\ \A i \in EdgesOutOf(id_map[r.source_name]) : edges[i].target = r.router_agent_id

\* C29: when every outgoing edge of a routed branch point names a destination
\* that has a target node, its decision agent has exactly one incoming edge and
\* exactly one outgoing edge, to the first gate, and each of its gates has
\* exactly one edge on its true output and exactly one on its false output; when
\* the branch point is not the start node, its own target node has exactly one
\* outgoing edge, to its decision agent
C29_RoutingFullyWired ==
    status = "ok" =>
        \A r \in RoutedNow :
            DestinationsPresent(r) =>
                /\ SubGraphWired(r)
                /\ r.source_name # DesignatedStart => SourceFeedsAgent(r)

\* C29 without its condition on the destinations
C29_WiredWhateverDestinations ==
    status = "ok" =>
        \A r \in RoutedNow :
            /\ SubGraphWired(r)
            /\ r.source_name # DesignatedStart => SourceFeedsAgent(r)

\* C29 witness: a branch point that is not the start node was compiled into a
\* decision agent and a chain of two or more gates, every destination has a
\* target node, and the sub-graph is wired as stated
C29_Witness ==
    /\ status = "ok"
    /\ \E r \in RoutedNow :
           /\ DestinationsPresent(r)
           /\ r.source_name # DesignatedStart
           /\ Len(r.router_ids) >= 2
           /\ SubGraphWired(r)
           /\ SourceFeedsAgent(r)

-----------------------------------------------------------------------------
(* C30: the indexing of the template library. *)

\* the types of the typed nodes of the reference document
DocTypes == Range(template_flow) \ {""}

\* the position of the first node of type t in the reference document
FirstOccurrence(t) ==
    CHOOSE i \in DOMAIN template_flow :
        template_flow[i] = t /\ \A j \in 1..(i - 1) : template_flow[j] # t

\* the template objects the library binds to the key t
TemplatesOf(t) ==
    {heap.node[component_library[k].addr] :
        k \in {j \in DOMAIN component_library : component_library[j].type = t}}

\* C30: the library built from a reference document holds, for every type of
\* its typed nodes, one template, which is the copy of the first node of that
\* type and of no later one; nodes without a type are not indexed
C30_FirstOccurrenceWins ==
    /\ \A t \in DocTypes :
           /\ Cardinality({k \in DOMAIN component_library : component_library[k].type = t}) = 1
           /\ \A obj \in TemplatesOf(t) : obj.id = TemplateId(FirstOccurrence(t), t)
    /\ "" \notin LibKeys
    /\ \A k \in DOMAIN component_library :
           heap.node[component_library[k].addr].id.type # ""

\* C30 witness: the library of a document with two nodes of one type and a node
\* without a type between them, after that type has been cloned
C30_Witness ==
    /\ \E t \in DocTypes : \E i, j, k \in DOMAIN template_flow :
           /\ i < k /\ k < j
           /\ template_flow[i] = t /\ template_flow[j] = t /\ template_flow[k] = ""
           /\ \E a \in Range(held) : heap.node[a].id.type = t
    /\ Len(held) > 0

====
